---- MODULE Spec2Model ----
(***************************************************************************)
(* Time-to-score synchronisation engine of the Guitar Pro tab player.      *)
(*                                                                         *)
(* Three pages carry a copy of the engine: the synced player               *)
(* (sync-player.js, class SyncedPlayer), the sync editor (editor.js, class *)
(* SyncEditor) and the standalone player that the editor generates         *)
(* (editor.js, buildStandalonePlayerHTML).  A run of the program is one    *)
(* page; the variable page says which one.                                 *)
(*                                                                         *)
(* Time.  One time unit is 0.05 s, so that the notation offset (-0.15 s)   *)
(* is -3 units and the bar-stepping debounce (0.1 s) is 2 units.  Marker   *)
(* times and the audio duration are whole units.  Computed times (the      *)
(* transport multiplies and divides by the playback rate) are exact        *)
(* rationals <<numerator, denominator>> in lowest terms with a positive    *)
(* denominator.                                                            *)
(***************************************************************************)
EXTENDS Integers, Sequences, FiniteSets, TLC

(***************************************************************************)
(* Bounds of the model.                                                    *)
(***************************************************************************)
MaxLen == 2            \* longest enumerated marker list
MaxTime == 3           \* largest enumerated marker time (units of 0.05 s)
MaxBars == 2           \* bars of the largest enumerated score
BarTicks == 3840       \* renderer ticks of one bar of the enumerated scores

(***************************************************************************)
(* Program constants.                                                      *)
(***************************************************************************)
NotationOffset == -3   \* this.notationOffset = -0.15 s
JitterTicks == 100     \* Math.abs(tick - this.lastTick) > 100

(***************************************************************************)
(* Exact rational arithmetic for JavaScript's number arithmetic on times.  *)
(***************************************************************************)
Abs(x) == IF x < 0 THEN -x ELSE x

RECURSIVE GCD(_, _)
GCD(a, b) == IF b = 0 THEN a ELSE GCD(b, a % b)

Rat(n, d) ==
    LET g == GCD(Abs(n), Abs(d))
        s == IF d < 0 THEN -1 ELSE 1
    IN  <<(s * n) \div g, (s * d) \div g>>

RInt(k) == <<k, 1>>
RAdd(a, b) == Rat(a[1] * b[2] + b[1] * a[2], a[2] * b[2])
RSub(a, b) == Rat(a[1] * b[2] - b[1] * a[2], a[2] * b[2])
RMul(a, b) == Rat(a[1] * b[1], a[2] * b[2])
RDiv(a, b) == Rat(a[1] * b[2], a[2] * b[1])
RLe(a, b) == a[1] * b[2] <= b[1] * a[2]
RLt(a, b) == a[1] * b[2] < b[1] * a[2]
RMin(a, b) == IF RLe(a, b) THEN a ELSE b
RMax(a, b) == IF RLe(a, b) THEN b ELSE a
\* Math.floor and Math.round (round half up) of a rational
RFloor(a) == a[1] \div a[2]
RRound(a) == (2 * a[1] + a[2]) \div (2 * a[2])

(***************************************************************************)
(* Enumerated inputs: marker lists as a tapping session or a sync file     *)
(* supplies them (the i-th marker is for bar i; times are whatever the     *)
(* audio position was at each tap, so not necessarily ordered), the        *)
(* renderer's tick cache, and the audio duration.                          *)
(***************************************************************************)
Times == 0..MaxTime

MarkersOf(ts) == [i \in 1..Len(ts) |-> [bar |-> i, time |-> ts[i]]]

TimeLists == UNION {[1..n -> Times] : n \in 0..MaxLen}

\* taps at 0.0, 2.0, 4.1, 6.0 s in a 4-bar score, audio of 8.0 s
Scenario == [times |-> <<0, 40, 82, 120>>, duration |-> 160, t |-> 60]

MarkerLists == {MarkersOf(ts) : ts \in TimeLists}

\* the audio outlasts every enumerated marker time, also after the offset
LongDuration == MaxTime + 4

\* every enumerated marker list with a score of MaxBars bars; one project
\* whose score is shorter than its marker list; one whose audio is shorter
\* than its marker times; and the scenario
Projects ==
    {[markers |-> m, duration |-> LongDuration, bars |-> MaxBars] : m \in MarkerLists}
    \cup {[markers |-> MarkersOf(<<0, 2>>), duration |-> LongDuration, bars |-> 1],
          [markers |-> MarkersOf(<<1, 3>>), duration |-> 2, bars |-> 2],
          [markers |-> MarkersOf(Scenario.times), duration |-> Scenario.duration,
           bars |-> 4]}

\* alphaTab's tickCache.masterBars for a score of n bars
MasterBars(n) == [i \in 1..n |-> [start |-> BarTicks * (i - 1), end |-> BarTicks * i]]

\* times handed to the resolvers by the audio engines
ResolveTimes == (0..(MaxTime + 4)) \cup {Scenario.t, Scenario.duration}

Pages == {"player", "editor", "standalone"}

VARIABLES
    page,            \* which page this run is
    tickCache,       \* alphaTab.tickCache.masterBars of the rendered score
    barTickMap,      \* the page's barTickMap
    tickPosition,    \* alphaTab.tickPosition, the renderer cursor
    syncData,        \* player / standalone: syncData.markers
    duration,        \* player / standalone: audio duration
    currentTime,     \* SyncedPlayer.currentTime
    currentBar,      \* SyncedPlayer.currentBar
    beatMarkers,     \* SyncEditor.beatMarkers
    lastSyncedBar,   \* SyncEditor.lastSyncedBar
    lastTick,        \* SyncEditor.lastTick
    currentBarToMark, \* SyncEditor.currentBarToMark
    totalBars,       \* SyncEditor.totalBars / SyncedPlayer.totalBars
    score,           \* SyncEditor.score !== null
    autoSaveTimeout, \* SyncEditor.autoSaveTimeout !== null
    timer,           \* SyncEditor: the timeout scheduleAutoSave set is pending
    isSaving,        \* SyncEditor.isSaving
    projectId,       \* SyncEditor.projectId (0 is null)
    saves,           \* SyncEditor: the saves whose store request is in flight
    library,         \* the ids of the records in the 'projects' store
    gpFileName,      \* SyncEditor.gpFileName (0 is null; files are numbered)
    gpFileData,      \* SyncEditor.gpFileData / gpFileDataBase64
    audioFileName,   \* SyncEditor.audioFileName
    audioFileData,   \* SyncEditor.audioFileData
    loads,           \* SyncEditor: the file reads, score loads and audio
                     \* decodes whose completion callback has not run yet
    tabsync,         \* the text of the .tabsync file that was downloaded
    audioFile,       \* duration of the audio file that was selected
    audioBuffer,     \* SyncedPlayer.audioBuffer !== null
    isPlaying,       \* player / standalone: isPlaying
    isLooping,       \* SyncedPlayer.isLooping
    pausedAt,        \* player / standalone: pausedAt, the stored position
    startedAt,       \* player / standalone: startedAt
    playbackRate,    \* SyncedPlayer.playbackRate
    audioSource,     \* audioSource (standalone: source) !== null
    sources,         \* the buffer sources that were started and have not
                     \* been stopped nor reached the end of the buffer
    animationFrame,  \* SyncedPlayer.animationFrame !== null
    frames,          \* number of requestAnimationFrame callbacks pending
    ctxTime,         \* audioContext.currentTime
    tempoChanges,    \* number of tempo slider inputs so far
    last             \* the most recent handler call with its locals

storeVars == <<isSaving, projectId, saves, library>>
loadVars == <<gpFileName, gpFileData, audioFileName, audioFileData, loads>>
scoreVars == <<page, tickCache, syncData, audioFile, storeVars, timer, loadVars, tabsync>>
sessionVars == <<currentBarToMark, totalBars, score, autoSaveTimeout>>
editorVars == <<beatMarkers, lastSyncedBar, lastTick, sessionVars>>
transportVars == <<audioBuffer, duration, isPlaying, isLooping, pausedAt, startedAt,
                   playbackRate, audioSource, sources, animationFrame, frames,
                   ctxTime, tempoChanges>>

vars == <<page, tickCache, barTickMap, tickPosition, syncData, duration,
          currentTime, currentBar, beatMarkers, lastSyncedBar, lastTick, sessionVars,
          audioFile, audioBuffer, isPlaying, isLooping, pausedAt, startedAt,
          playbackRate, audioSource, sources, animationFrame, frames, ctxTime,
          tempoChanges, last, storeVars, timer, loadVars, tabsync>>

\* computed: progress and tick hold values the call computed
\* applied: the call assigned alphaTab.tickPosition := tick
NoCall == [op |-> "none", t |-> RInt(0), idx |-> 0, bar |-> 0, computed |-> FALSE,
           progress |-> RInt(0), tick |-> 0, applied |-> FALSE]

(***************************************************************************)
(* buildBarTickMap: bar number i+1 -> {start, end} of masterBars[i].       *)
(* A TLA+ sequence is 1-based, so entry b of the sequence is bar b.        *)
(***************************************************************************)
BuildBarTickMap(cache) == [b \in 1..Len(cache) |-> [start |-> cache[b].start, end |-> cache[b].end]]

\* barTickMap[bar] is defined
HasBar(btm, bar) == bar \in DOMAIN btm

(***************************************************************************)
(* The forward scan shared by SyncedPlayer.updateCursor and                *)
(* SyncEditor.highlightCurrentBar: it walks the markers in order and       *)
(* breaks at the first marker whose time is after t.  ScanStop is the      *)
(* number of markers the loop accepted before it stopped.                  *)
(***************************************************************************)
ScanStop(ms, t) ==
    CHOOSE k \in 0..Len(ms) :
        /\ \A j \in 1..k : RLe(RInt(ms[j].time), t)
        /\ k < Len(ms) => ~RLe(RInt(ms[k + 1].time), t)

\* Math.min(1, Math.max(0, x))
Clamp01(x) == RMin(RInt(1), RMax(RInt(0), x))

(***************************************************************************)
(* SyncedPlayer.updateCursor (sync-player.js 753-813).                     *)
(***************************************************************************)
\* variant: the quotient is not clamped
PlayerProgress_Unclamped(at, curT, nextT) ==
    IF nextT - curT > 0
    THEN RDiv(RSub(at, RInt(curT)), RInt(nextT - curT))
    ELSE RInt(0)

\* variant: the time remaining in the bar instead of the time elapsed
PlayerProgress_Remaining(at, curT, nextT) ==
    IF nextT - curT > 0
    THEN Clamp01(RDiv(RSub(RInt(nextT), at), RInt(nextT - curT)))
    ELSE RInt(0)

\* barProgress = barDuration > 0 ? Math.min(1, Math.max(0, timeInBar / barDuration)) : 0
PlayerProgress(at, curT, nextT) ==
    IF nextT - curT > 0
    THEN Clamp01(RDiv(RSub(at, RInt(curT)), RInt(nextT - curT)))
    ELSE RInt(0)

\* variant: Math.round instead of Math.floor
InterpolateTick_Rounded(bt, progress) ==
    RRound(RAdd(RInt(bt.start), RMul(RInt(bt.end - bt.start), progress)))

\* Math.floor(barTicks.start + (barTicks.end - barTicks.start) * progress)
InterpolateTick(bt, progress) ==
    RFloor(RAdd(RInt(bt.start), RMul(RInt(bt.end - bt.start), progress)))

\* the locals of one call: adjusted time, active index (1-based, 0 when the
\* call returned before choosing a marker), bar, progress, tick, and
\* whether alphaTab.tickPosition was assigned
UpdateCursorCall(ms, ct, dur, btm) ==
    LET at == RAdd(ct, RInt(NotationOffset))
        k == ScanStop(ms, at)
        idx == IF k = 0 THEN 1 ELSE k
        curT == IF k = 0 THEN 0 ELSE ms[k].time
        nextT == IF k = 0 THEN dur
                 ELSE IF k + 1 <= Len(ms) THEN ms[k + 1].time ELSE dur
        none == [t |-> at, idx |-> 0, bar |-> 0, computed |-> FALSE,
                 progress |-> RInt(0), tick |-> 0, applied |-> FALSE]
    IN  IF Len(ms) = 0 THEN none
        ELSE IF Len(btm) = 0 \/ ~HasBar(btm, ms[idx].bar)
             THEN [none EXCEPT !.idx = idx, !.bar = ms[idx].bar]
        ELSE LET pr == PlayerProgress(at, curT, nextT)
             IN  [t |-> at, idx |-> idx, bar |-> ms[idx].bar, computed |-> TRUE,
                  progress |-> pr,
                  tick |-> InterpolateTick(btm[ms[idx].bar], pr), applied |-> TRUE]

\* variant: a call that applies no tick puts the cursor at the start
CursorTick_Reset(r, tick) == IF r.applied THEN r.tick ELSE 0

\* the bar indicator and the renderer cursor after a call with locals r
CursorBar(r, bar) == IF r.bar # 0 THEN r.bar ELSE bar
CursorTick(r, tick) == IF r.applied THEN r.tick ELSE tick

(***************************************************************************)
(* SyncEditor.highlightCurrentBar (editor.js 1081-1133) and scrollToBar.   *)
(***************************************************************************)
\* nextBarTime = this.beatMarkers[i + 1]?.time || null
\* (null is [absent |-> TRUE]; a next time of 0 is falsy and becomes null)
EditorNextBarTime(ms, k) ==
    IF k + 1 <= Len(ms) /\ ms[k + 1].time # 0
    THEN [absent |-> FALSE, time |-> ms[k + 1].time]
    ELSE [absent |-> TRUE, time |-> 0]

\* variant: the bar duration is taken to be nextBarTime, not nextBarTime - currentBarTime
EditorProgress_FromZero(t, curT, nextT) ==
    IF ~nextT.absent /\ nextT.time > curT
    THEN Clamp01(RDiv(RSub(t, RInt(curT)), RInt(nextT.time)))
    ELSE RInt(0)

\* progress = 0; if (nextBarTime && nextBarTime > currentBarTime) progress = clamp(...)
EditorProgress(t, curT, nextT) ==
    IF ~nextT.absent /\ nextT.time > curT
    THEN Clamp01(RDiv(RSub(t, RInt(curT)), RInt(nextT.time - curT)))
    ELSE RInt(0)

\* if (!this.lastTick || Math.abs(tick - this.lastTick) > 100)
PassesJitter(tick, lt) == lt = 0 \/ Abs(tick - lt) > JitterTicks

HighlightCall(ms, t, btm, lsb, lt) ==
    LET k == ScanStop(ms, t)
        bar == IF k = 0 THEN 0 ELSE ms[k].bar
        curT == IF k = 0 THEN 0 ELSE ms[k].time
        nextT == IF k = 0 THEN [absent |-> TRUE, time |-> 0] ELSE EditorNextBarTime(ms, k)
        scroll == bar > 0 /\ bar # lsb
        inMap == bar > 0 /\ HasBar(btm, bar)
        pr == EditorProgress(t, curT, nextT)
        tick == InterpolateTick(btm[bar], pr)
    IN  [t |-> t, idx |-> k, bar |-> bar, computed |-> inMap,
         progress |-> IF inMap THEN pr ELSE RInt(0),
         tick |-> IF inMap THEN tick ELSE 0,
         applied |-> inMap /\ PassesJitter(tick, lt),
         scrolled |-> scroll /\ inMap]

HighlightCurrentBar(t, lsb) ==
    LET r == HighlightCall(beatMarkers, t, barTickMap, lsb, lastTick)
    IN  /\ lastSyncedBar' = IF r.bar > 0 /\ r.bar # lsb THEN r.bar ELSE lsb
        /\ lastTick' = IF r.applied THEN r.tick ELSE lastTick
        /\ tickPosition' = IF r.applied THEN r.tick
                           ELSE IF r.scrolled THEN barTickMap[r.bar].start
                           ELSE tickPosition
        /\ last' = [op |-> "highlightCurrentBar", t |-> r.t, idx |-> r.idx,
                    bar |-> r.bar, computed |-> r.computed, progress |-> r.progress,
                    tick |-> r.tick, applied |-> r.applied]

(***************************************************************************)
(* The generated standalone player's updateCursor (editor.js 1444-1452):   *)
(* a full scan without break, cursor at the start of the bar.              *)
(***************************************************************************)
StandaloneActive(ms, t) ==
    LET q == {i \in 1..Len(ms) : RLe(RInt(ms[i].time), t)}
    IN  IF q = {} THEN 0 ELSE CHOOSE i \in q : \A j \in q : j <= i

StandaloneCursorCall(ms, t, btm) ==
    LET k == StandaloneActive(ms, t)
        bar == IF k = 0 THEN 0 ELSE ms[k].bar
        \* barTickMap[bar - 1] of the 0-based array is entry bar of the sequence
        ok == bar > 0 /\ HasBar(btm, (bar - 1) + 1)
    IN  [t |-> t, idx |-> k, bar |-> bar, computed |-> FALSE, progress |-> RInt(0),
         tick |-> IF ok THEN btm[(bar - 1) + 1].start ELSE 0, applied |-> ok]

(***************************************************************************)
(* Resolver specification: the audio engine is a source of arbitrary       *)
(* times; every time it reports is resolved by the page's resolver.        *)
(***************************************************************************)
\* nothing is being saved or loaded, and no file was selected (SyncEditor
\* constructor, editor.js 6-40)
IoInit ==
    /\ timer = FALSE
    /\ isSaving = FALSE
    /\ projectId = 0
    /\ saves = <<>>
    /\ library = {}
    /\ gpFileName = 0
    /\ gpFileData = 0
    /\ audioFileName = 0
    /\ audioFileData = 0
    /\ loads = {}
    /\ tabsync = <<>>

LoadedInit(pg, p) ==
    /\ IoInit
    /\ page = pg
    /\ tickCache = MasterBars(p.bars)
    /\ barTickMap = <<>>
    /\ tickPosition = 0
    /\ syncData = IF pg = "editor" THEN <<>> ELSE p.markers
    /\ beatMarkers = IF pg = "editor" THEN p.markers ELSE <<>>
    /\ duration = p.duration
    /\ currentTime = RInt(0)
    /\ currentBar = 0
    /\ lastSyncedBar = 0
    /\ lastTick = 0
    /\ currentBarToMark = IF pg = "editor" THEN Len(p.markers) + 1 ELSE 1
    /\ totalBars = IF pg = "editor" THEN p.bars ELSE 0
    /\ score = (pg = "editor")
    /\ autoSaveTimeout = FALSE
    /\ audioFile = p.duration
    /\ audioBuffer = (pg = "player")
    /\ isPlaying = FALSE
    /\ isLooping = FALSE
    /\ pausedAt = RInt(0)
    /\ startedAt = RInt(0)
    /\ playbackRate = RInt(1)
    /\ audioSource = FALSE
    /\ sources = <<>>
    /\ animationFrame = FALSE
    /\ frames = 0
    /\ ctxTime = 0
    /\ tempoChanges = 0
    /\ last = NoCall

ResolverInit == \E pg \in Pages, p \in Projects : LoadedInit(pg, p)

\* alphaTab renderFinished / playerReady: the page builds its tick map
RenderFinished ==
    /\ barTickMap' = BuildBarTickMap(tickCache)
    /\ UNCHANGED <<scoreVars, editorVars, transportVars, tickPosition, currentTime,
                   currentBar, last>>

\* player frame: currentTime is read from the audio clock, then updateCursor()
PlayerResolve(t) ==
    /\ page = "player"
    /\ t <= duration
    /\ currentTime' = RInt(t)
    /\ LET r == UpdateCursorCall(syncData, RInt(t), duration, barTickMap)
       IN  /\ currentBar' = CursorBar(r, currentBar)
           /\ tickPosition' = CursorTick(r, tickPosition)
           /\ last' = [op |-> "updateCursor"] @@ r
    /\ UNCHANGED <<scoreVars, editorVars, transportVars, barTickMap>>

\* wavesurfer 'audioprocess': highlightCurrentBar(getCurrentTime())
EditorAudioprocess(t) ==
    /\ page = "editor"
    /\ HighlightCurrentBar(RInt(t), lastSyncedBar)
    /\ UNCHANGED <<scoreVars, transportVars, barTickMap, currentTime, currentBar,
                   beatMarkers, sessionVars>>

\* wavesurfer 'seeking': lastSyncedBar = 0, then highlightCurrentBar
EditorSeeking(t) ==
    /\ page = "editor"
    /\ HighlightCurrentBar(RInt(t), 0)
    /\ UNCHANGED <<scoreVars, transportVars, barTickMap, currentTime, currentBar,
                   beatMarkers, sessionVars>>

StandaloneResolve(t) ==
    /\ page = "standalone"
    /\ t <= duration
    /\ LET r == StandaloneCursorCall(syncData, RInt(t), barTickMap)
       IN  /\ tickPosition' = CursorTick(r, tickPosition)
           /\ last' = [op |-> "standaloneUpdateCursor"] @@ r
    /\ UNCHANGED <<scoreVars, editorVars, transportVars, barTickMap, currentTime,
                   currentBar>>

ResolverNext ==
    \/ RenderFinished
    \/ \E t \in ResolveTimes : PlayerResolve(t)
    \/ \E t \in ResolveTimes : EditorAudioprocess(t)
    \/ \E t \in ResolveTimes : EditorSeeking(t)
    \/ \E t \in ResolveTimes : StandaloneResolve(t)

ResolverSpec == ResolverInit /\ [][ResolverNext]_vars

(***************************************************************************)
(* Transport.  A handler is a sequence of method calls on the page's       *)
(* state; each method is an operator from the state record before the call *)
(* to the state record after it, so that nested calls (seekTo calling      *)
(* pause, updateCursor and play) compose as they do in the code.           *)
(***************************************************************************)
MaxClock == 3          \* the audio clock is followed for this many units
MaxTempoChanges == 1   \* inputs of the tempo slider that are followed
MaxFrames == 2         \* pending animation-frame callbacks that are followed
MaxSources == 2        \* simultaneously sounding buffer sources that are followed

\* values of the tempo slider (percent): normal and double speed
TempoValues == {100, 200}

\* the project whose playback is followed: two bars, the second marked at
\* the last unit of the audio
TransportProjects ==
    {[markers |-> MarkersOf(<<0, 3>>), duration |-> 3, bars |-> 2]}

\* arguments of seekTo: every position of the audio, and one before and one
\* after it
SeekArgs(d) == (0 - 1)..(d + 1)

NoCursor == [t |-> RInt(0), idx |-> 0, bar |-> 0, computed |-> FALSE,
             progress |-> RInt(0), tick |-> 0, applied |-> FALSE]

\* the page's mutable state at the start of a handler; ran says whether
\* updateCursor has run in this handler, cursor holds its locals, threw
\* whether the handler was left by an exception
Here ==
    [isPlaying |-> isPlaying, pausedAt |-> pausedAt, startedAt |-> startedAt,
     audioSource |-> audioSource, sources |-> sources,
     animationFrame |-> animationFrame, frames |-> frames,
     currentTime |-> currentTime, currentBar |-> currentBar,
     tickPosition |-> tickPosition, ran |-> FALSE, cursor |-> NoCursor,
     threw |-> FALSE]

Commit(P) ==
    /\ isPlaying' = P.isPlaying
    /\ pausedAt' = P.pausedAt
    /\ startedAt' = P.startedAt
    /\ audioSource' = P.audioSource
    /\ sources' = P.sources
    /\ animationFrame' = P.animationFrame
    /\ frames' = P.frames
    /\ currentTime' = P.currentTime
    /\ currentBar' = P.currentBar
    /\ tickPosition' = P.tickPosition

\* the record of a handler call: its name, argument, the transport state it
\* found, and the locals of the updateCursor call it made (if ran)
CallRecord(name, arg, P) ==
    [op |-> name, arg |-> arg, wasPlaying |-> isPlaying, wasLooping |-> isLooping,
     ran |-> P.ran, threw |-> P.threw] @@ P.cursor

\* a buffer source: pos is the buffer position it is playing, rate its
\* playbackRate.value, cur whether audioSource refers to it
NewSource(offset, rate) == [pos |-> offset, rate |-> rate, cur |-> TRUE]

\* audioSource = <another node>: no live source is the current one any more
Dereference(srcs) == [i \in 1..Len(srcs) |-> [srcs[i] EXCEPT !.cur = FALSE]]

\* audioSource.stop()
StopCurrent(srcs) == SelectSeq(srcs, LAMBDA x : ~x.cur)

\* the source has played to the end of the buffer
AtEnd(src) == RLe(RInt(duration), src.pos)

\* stopUpdateLoop (sync-player.js 738-743)
StopUpdateLoop(P) ==
    IF P.animationFrame
    THEN [P EXCEPT !.frames = @ - 1, !.animationFrame = FALSE]
    ELSE P

\* variant: the elapsed engine time is stored without the rate
Pause_Elapsed(P) ==
    IF ~P.isPlaying THEN P
    ELSE StopUpdateLoop(
            [P EXCEPT !.pausedAt = RSub(RInt(ctxTime), P.startedAt),
                      !.sources = IF P.audioSource THEN StopCurrent(@) ELSE @,
                      !.audioSource = FALSE,
                      !.isPlaying = FALSE])

\* pause (sync-player.js 642-656)
Pause(P) ==
    IF ~P.isPlaying THEN P
    ELSE StopUpdateLoop(
            [P EXCEPT !.pausedAt = RMul(RSub(RInt(ctxTime), P.startedAt), playbackRate),
                      !.sources = IF P.audioSource THEN StopCurrent(@) ELSE @,
                      !.audioSource = FALSE,
                      !.isPlaying = FALSE])

\* play (sync-player.js 610-640), with startUpdateLoop (719-736)
Play(P) ==
    IF ~audioBuffer THEN P
    ELSE [P EXCEPT !.sources = Append(Dereference(@), NewSource(P.pausedAt, playbackRate)),
                   !.audioSource = TRUE,
                   !.startedAt = RSub(RInt(ctxTime), RDiv(P.pausedAt, playbackRate)),
                   !.isPlaying = TRUE,
                   !.frames = @ + 1,
                   !.animationFrame = TRUE]

\* updateCursor on the state P
Cursor(P) ==
    LET r == UpdateCursorCall(syncData, P.currentTime, duration, barTickMap)
    IN  [P EXCEPT !.currentBar = CursorBar(r, @),
                  !.tickPosition = CursorTick(r, @),
                  !.ran = TRUE,
                  !.cursor = r]

\* variant: the cursor is not resolved again after the reset
Stop_NoCursor(P) ==
    [Pause(P) EXCEPT !.pausedAt = RInt(0), !.currentTime = RInt(0), !.currentBar = 0]

\* stop (sync-player.js 658-666)
Stop(P) ==
    Cursor([Pause(P) EXCEPT !.pausedAt = RInt(0), !.currentTime = RInt(0),
                            !.currentBar = 0])

\* Math.max(0, Math.min(time, this.duration))
ClampTime(x) == RMax(RInt(0), RMin(x, RInt(duration)))

\* seekTo (sync-player.js 668-683)
SeekTo(P, x) ==
    LET P1 == IF P.isPlaying THEN Pause(P) ELSE P
        P2 == Cursor([P1 EXCEPT !.pausedAt = ClampTime(x), !.currentTime = ClampTime(x)])
    IN  IF P.isPlaying THEN Play(P2) ELSE P2

\* variant: a looping player plays again without seeking to 0
OnEnded_Resume(P) ==
    IF P.isPlaying
    THEN IF isLooping THEN Play(P) ELSE Stop(P)
    ELSE P

\* audioSource.onended (sync-player.js 622-631)
OnEnded(P) ==
    IF P.isPlaying
    THEN IF isLooping THEN Play(SeekTo(P, RInt(0))) ELSE Stop(P)
    ELSE P

\* the update callback of startUpdateLoop (sync-player.js 720-733); the
\* callback that runs is no longer pending, and it schedules the next one
\* only while playing
Update(P) ==
    IF ~P.isPlaying THEN [P EXCEPT !.frames = @ - 1]
    ELSE LET ct == RMul(RSub(RInt(ctxTime), P.startedAt), playbackRate)
         IN  [Cursor([P EXCEPT !.currentTime = IF RLe(RInt(duration), ct)
                                               THEN RInt(duration) ELSE ct])
                EXCEPT !.animationFrame = TRUE]

(***************************************************************************)
(* The handlers of the synced player page.                                 *)
(***************************************************************************)
held == <<scoreVars, editorVars, barTickMap>>

\* the decodeAudioData success callback of startPlayback (sync-player.js 543-553)
AudioDecoded ==
    /\ page = "player"
    /\ ~audioBuffer
    /\ audioBuffer' = TRUE
    /\ duration' = audioFile
    /\ UNCHANGED <<held, isPlaying, isLooping, pausedAt, startedAt, playbackRate,
                   audioSource, sources, animationFrame, frames, ctxTime,
                   tempoChanges, tickPosition, currentTime, currentBar, last>>

Apply(name, arg, P) ==
    /\ Len(P.sources) <= MaxSources
    /\ P.frames <= MaxFrames
    /\ Commit(P)
    /\ last' = CallRecord(name, arg, P)
    /\ UNCHANGED <<held, audioBuffer, duration, isLooping, playbackRate, ctxTime,
                   tempoChanges>>

\* togglePlayPause (sync-player.js 602-608)
TogglePlayPause ==
    /\ page = "player"
    /\ Apply("togglePlayPause", RInt(0), IF isPlaying THEN Pause(Here) ELSE Play(Here))

StopPressed ==
    /\ page = "player"
    /\ Apply("stop", RInt(0), Stop(Here))

SeekToCalled(x) ==
    /\ page = "player"
    /\ Apply("seekTo", RInt(x), SeekTo(Here, RInt(x)))

\* toggleLoop (sync-player.js 710-713)
ToggleLoop ==
    /\ page = "player"
    /\ isLooping' = ~isLooping
    /\ last' = CallRecord("toggleLoop", RInt(0), Here)
    /\ UNCHANGED <<held, audioBuffer, duration, isPlaying, pausedAt, startedAt,
                   playbackRate, audioSource, sources, animationFrame, frames,
                   ctxTime, tempoChanges, tickPosition, currentTime, currentBar>>

\* the tempo slider's input handler (sync-player.js 220-228)
SetTempo(v) ==
    /\ page = "player"
    /\ tempoChanges < MaxTempoChanges
    /\ tempoChanges' = tempoChanges + 1
    /\ playbackRate' = Rat(v, 100)
    /\ sources' = IF audioSource
                  THEN [i \in 1..Len(sources) |->
                          IF sources[i].cur THEN [sources[i] EXCEPT !.rate = Rat(v, 100)]
                          ELSE sources[i]]
                  ELSE sources
    /\ last' = CallRecord("setTempo", RInt(v), Here)
    /\ UNCHANGED <<held, audioBuffer, duration, isPlaying, isLooping, pausedAt,
                   startedAt, audioSource, animationFrame, frames, ctxTime,
                   tickPosition, currentTime, currentBar>>

\* an animation frame: one pending update callback runs
Frame ==
    /\ page = "player"
    /\ frames > 0
    /\ Apply("update", RInt(0), Update(Here))

\* the 'ended' event of source i, which has played to the end of the buffer
Ended(i) ==
    /\ page = "player"
    /\ i \in 1..Len(sources)
    /\ AtEnd(sources[i])
    /\ LET rest == SelectSeq([j \in 1..Len(sources) |-> [src |-> sources[j], at |-> j]],
                             LAMBDA x : x.at # i)
           P == [Here EXCEPT !.sources = [j \in 1..Len(rest) |-> rest[j].src]]
       IN  Apply("ended", RInt(0), OnEnded(P))

\* the audio clock advances by one unit; every sounding source advances by
\* its rate.  An ended source's event is delivered before the clock moves on.
Advance ==
    /\ page = "player"
    /\ ctxTime < MaxClock
    /\ \A i \in 1..Len(sources) : ~AtEnd(sources[i])
    /\ ctxTime' = ctxTime + 1
    /\ sources' = [i \in 1..Len(sources) |->
                     [sources[i] EXCEPT !.pos = RAdd(@, sources[i].rate)]]
    /\ UNCHANGED <<held, audioBuffer, duration, isPlaying, isLooping, pausedAt,
                   startedAt, playbackRate, audioSource, animationFrame, frames,
                   tempoChanges, tickPosition, currentTime, currentBar, last>>

PlayerInit ==
    \E p \in TransportProjects :
        /\ IoInit
        /\ page = "player"
        /\ tickCache = MasterBars(p.bars)
        /\ barTickMap = BuildBarTickMap(MasterBars(p.bars))
        /\ tickPosition = 0
        /\ syncData = p.markers
        /\ beatMarkers = <<>>
        /\ audioFile = p.duration
        /\ audioBuffer = FALSE
        /\ duration = 0
        /\ currentTime = RInt(0)
        /\ currentBar = 0
        /\ lastSyncedBar = 0
        /\ lastTick = 0
        /\ currentBarToMark = 1
        /\ totalBars = 0
        /\ score = FALSE
        /\ autoSaveTimeout = FALSE
        /\ isPlaying = FALSE
        /\ isLooping = FALSE
        /\ pausedAt = RInt(0)
        /\ startedAt = RInt(0)
        /\ playbackRate = RInt(1)
        /\ audioSource = FALSE
        /\ sources = <<>>
        /\ animationFrame = FALSE
        /\ frames = 0
        /\ ctxTime = 0
        /\ tempoChanges = 0
        /\ last = NoCall

PlayerNext ==
    \/ AudioDecoded
    \/ TogglePlayPause
    \/ StopPressed
    \/ \E x \in SeekArgs(audioFile) : SeekToCalled(x)
    \/ ToggleLoop
    \/ \E v \in TempoValues : SetTempo(v)
    \/ Frame
    \/ \E i \in 1..MaxSources : Ended(i)
    \/ Advance

Spec == PlayerInit /\ [][PlayerNext]_vars

(***************************************************************************)
(* The tempo slider with every value its handler accepts.  parseInt yields *)
(* any integer the input element holds, and the handler stores value / 100 *)
(* whatever it is.  The transport is followed while the stored rate is     *)
(* positive: with a rate of 0 play() divides by it.                        *)
(***************************************************************************)
TempoInputs == {0 - 50, 0, 50, 200}

RatePositive == RLt(RInt(0), playbackRate)

TempoNext ==
    \/ AudioDecoded
    \/ \E v \in TempoInputs : SetTempo(v)
    \/ RatePositive /\ TogglePlayPause
    \/ RatePositive /\ Frame
    \/ RatePositive /\ Advance

TempoSpec == PlayerInit /\ [][TempoNext]_vars

(***************************************************************************)
(* Bar stepping (sync-player.js 685-708).  The steps are followed on every *)
(* enumerated marker list, in a player whose audio is decoded; the clock   *)
(* advances while no source has run out.                                   *)
(***************************************************************************)
\* the debounce of previousBar / nextBar: 0.1 s
Debounce == 2

\* variant: the marker just before currentTime, without the debounce
PreviousBarTarget_NoDebounce(ms, ct) ==
    LET q == {i \in 1..Len(ms) : RLt(RInt(ms[i].time), ct)}
    IN  IF q = {} THEN 0 ELSE ms[CHOOSE i \in q : \A j \in q : j <= i].time

\* previousBar's loop: from the end of the list, the first marker with
\* time < currentTime - 0.1; targetTime stays 0 when there is none
PreviousBarTarget(ms, ct) ==
    LET q == {i \in 1..Len(ms) : RLt(RInt(ms[i].time), RSub(ct, RInt(Debounce)))}
    IN  IF q = {} THEN 0 ELSE ms[CHOOSE i \in q : \A j \in q : j <= i].time

\* nextBar's loop: the index of the first marker in list order with
\* time > currentTime + 0.1, 0 when the loop ends without one
NextBarIndex(ms, ct) ==
    LET q == {i \in 1..Len(ms) : RLt(RAdd(ct, RInt(Debounce)), RInt(ms[i].time))}
    IN  IF q = {} THEN 0 ELSE CHOOSE i \in q : \A j \in q : i <= j

\* previousBar (sync-player.js 685-697)
PreviousBar ==
    /\ page = "player"
    /\ LET target == RInt(PreviousBarTarget(syncData, currentTime))
       IN  Apply("previousBar", target, SeekTo(Here, target))

\* nextBar (sync-player.js 699-708)
NextBar ==
    /\ page = "player"
    /\ LET k == NextBarIndex(syncData, currentTime)
       IN  IF k = 0
           THEN Apply("nextBar", RInt(0), Here)
           ELSE Apply("nextBar", RInt(syncData[k].time),
                      SeekTo(Here, RInt(syncData[k].time)))

\* the projects bar stepping is followed on: every enumerated marker list,
\* with audio that outlasts the markers
StepProjects ==
    {[markers |-> ms, duration |-> LongDuration, bars |-> MaxBars] : ms \in MarkerLists}

\* startPlayback has decoded the audio; the renderer has not finished, so
\* the tick map is still empty
StepInit == \E p \in StepProjects : LoadedInit("player", p)

StepNext ==
    \/ TogglePlayPause
    \/ \E x \in SeekArgs(duration) : SeekToCalled(x)
    \/ PreviousBar
    \/ NextBar
    \/ Frame
    \/ Advance

BarStepSpec == StepInit /\ [][StepNext]_vars

(***************************************************************************)
(* The generated standalone player (editor.js 1355-1455).  It has one      *)
(* speed, no loop and no ended handler; play() calls update() itself, and  *)
(* the callbacks update() schedules are never cancelled.                   *)
(***************************************************************************)
\* updateCursor(time) on the state P
StandaloneCursor(P, t) ==
    LET r == StandaloneCursorCall(syncData, t, barTickMap)
    IN  [P EXCEPT !.tickPosition = CursorTick(r, @),
                  !.ran = TRUE,
                  !.cursor = r]

\* pause (editor.js 1420-1425)
StandalonePause(P) ==
    [P EXCEPT !.sources = IF P.audioSource THEN StopCurrent(@) ELSE @,
              !.pausedAt = RSub(RInt(ctxTime), P.startedAt),
              !.isPlaying = FALSE]

\* update (editor.js 1435-1442)
StandaloneUpdate(P) ==
    IF ~P.isPlaying THEN P
    ELSE LET ct == RSub(RInt(ctxTime), P.startedAt)
         IN  IF RLe(RInt(duration), ct)
             THEN [StandalonePause(P) EXCEPT !.pausedAt = RInt(0)]
             ELSE [StandaloneCursor(P, ct) EXCEPT !.frames = @ + 1]

\* play (editor.js 1408-1418).  source.start(0, pausedAt) throws a RangeError
\* for a negative offset, which leaves play and its caller; an offset beyond
\* the buffer starts the source at its end.
StandalonePlay(P) ==
    IF RLt(P.pausedAt, RInt(0))
    THEN [P EXCEPT !.sources = Dereference(@), !.audioSource = TRUE, !.threw = TRUE]
    ELSE StandaloneUpdate(
            [P EXCEPT !.sources = Append(Dereference(@),
                                         NewSource(RMin(P.pausedAt, RInt(duration)), RInt(1))),
                      !.audioSource = TRUE,
                      !.startedAt = RSub(RInt(ctxTime), P.pausedAt),
                      !.isPlaying = TRUE])

\* seekTo (editor.js 1427-1433)
StandaloneSeek(P, x) ==
    LET P1 == IF P.isPlaying
              THEN [P EXCEPT !.sources = StopCurrent(@), !.isPlaying = FALSE]
              ELSE P
        P2 == [P1 EXCEPT !.pausedAt = x]
        P3 == IF P.isPlaying THEN StandalonePlay(P2) ELSE P2
    IN  IF P3.threw THEN P3 ELSE StandaloneCursor(P3, x)

\* togglePlay (editor.js 1404-1406)
StandaloneTogglePlay ==
    /\ page = "standalone"
    /\ Apply("togglePlay", RInt(0),
             IF isPlaying THEN StandalonePause(Here) ELSE StandalonePlay(Here))

\* the progress bar's click handler, or any other caller of seekTo
StandaloneSeekTo(x) ==
    /\ page = "standalone"
    /\ Apply("seekTo", RInt(x), StandaloneSeek(Here, RInt(x)))

\* an animation frame: one pending update callback runs
StandaloneFrame ==
    /\ page = "standalone"
    /\ frames > 0
    /\ Apply("update", RInt(0), StandaloneUpdate([Here EXCEPT !.frames = @ - 1]))

\* the audio clock advances by one unit; a source that has played to the end
\* of the buffer falls silent, and nothing is told about it
StandaloneAdvance ==
    /\ page = "standalone"
    /\ ctxTime < MaxClock
    /\ ctxTime' = ctxTime + 1
    /\ sources' = SelectSeq([i \in 1..Len(sources) |->
                               [sources[i] EXCEPT !.pos = RAdd(@, sources[i].rate)]],
                            LAMBDA x : ~AtEnd(x))
    /\ UNCHANGED <<held, audioBuffer, duration, isPlaying, isLooping, pausedAt,
                   startedAt, playbackRate, audioSource, animationFrame, frames,
                   tempoChanges, tickPosition, currentTime, currentBar, last>>

\* the projects the standalone player is generated from
StandaloneProjects ==
    {[markers |-> MarkersOf(<<0, 2>>), duration |-> 3, bars |-> 2],
     [markers |-> MarkersOf(<<1, 3>>), duration |-> 4, bars |-> 2]}

\* init() has run: the audio is decoded and the handlers are attached
StandaloneInit ==
    \E p \in StandaloneProjects :
        /\ IoInit
        /\ page = "standalone"
        /\ tickCache = MasterBars(p.bars)
        /\ barTickMap = BuildBarTickMap(MasterBars(p.bars))
        /\ tickPosition = 0
        /\ syncData = p.markers
        /\ beatMarkers = <<>>
        /\ audioFile = p.duration
        /\ audioBuffer = TRUE
        /\ duration = p.duration
        /\ currentTime = RInt(0)
        /\ currentBar = 0
        /\ lastSyncedBar = 0
        /\ lastTick = 0
        /\ currentBarToMark = 1
        /\ totalBars = 0
        /\ score = FALSE
        /\ autoSaveTimeout = FALSE
        /\ isPlaying = FALSE
        /\ isLooping = FALSE
        /\ pausedAt = RInt(0)
        /\ startedAt = RInt(0)
        /\ playbackRate = RInt(1)
        /\ audioSource = FALSE
        /\ sources = <<>>
        /\ animationFrame = FALSE
        /\ frames = 0
        /\ ctxTime = 0
        /\ tempoChanges = 0
        /\ last = NoCall

StandaloneNext ==
    \/ StandaloneTogglePlay
    \/ \E x \in SeekArgs(duration) : StandaloneSeekTo(x)
    \/ StandaloneFrame
    \/ StandaloneAdvance

StandaloneSpec == StandaloneInit /\ [][StandaloneNext]_vars

(***************************************************************************)
(* The editor's marker session (editor.js 803-933).  init() has created    *)
(* the wavesurfer instance, so this.wavesurfer is never null here; the     *)
(* playback position is whatever wavesurfer reports when a handler asks.   *)
(***************************************************************************)
\* the marker lists of the documents that are imported or opened.  The
\* editor exports, and the library stores, lists in which marker i is bar i,
\* at any times; these are an empty one, ones in and out of time order, and
\* one longer than the scores that are loaded here.
Documents ==
    {MarkersOf(ts) : ts \in {<<>>, <<0>>, <<1, 2>>, <<2, 1>>, <<0, 1, 2>>}}

\* what wavesurfer.getCurrentTime() can return with audio of duration d
Positions(d) == {0, 1, d} \cap (0..d)

\* scrollToBar (editor.js 512-520): the renderer cursor after the call
ScrollToBar(bar, tick) == IF HasBar(barTickMap, bar) THEN barTickMap[bar].start ELSE tick

\* scheduleAutoSave (editor.js 1501-1516): whether a timeout id is stored
\* after the call, with the marker list ms
ScheduleAutoSave(ms, timeout) == IF ~score \/ Len(ms) = 0 THEN timeout ELSE TRUE

\* the record of a marker handler call: the time it read, whether it
\* changed the list, and whether the call before it was a tap that appended;
\* a tap also keeps the list and the next bar it found
SessionCall(name, t, changed) ==
    [op |-> name, t |-> t, changed |-> changed,
     markers |-> IF name = "tap" THEN beatMarkers ELSE <<>>,
     next |-> IF name = "tap" THEN currentBarToMark ELSE 0,
     afterTap |-> last.op = "tap" /\ last.changed]

\* a save in flight holds a reference to the array this.beatMarkers was when
\* the save was called (markers: this.beatMarkers, editor.js 1573, 1681),
\* and the store copies the array when the record is put.  push and pop
\* change that array in place; an assignment to this.beatMarkers leaves it
\* as it is, and live says that no assignment was made since the call.
Detach(reqs) ==
    [i \in 1..Len(reqs) |->
        IF reqs[i].live
        THEN [reqs[i] EXCEPT !.live = FALSE, !.markers = beatMarkers]
        ELSE reqs[i]]

sessionHeld == <<page, syncData, audioFile, lastSyncedBar, lastTick, currentTime,
                 currentBar, transportVars, isSaving, projectId, library, loadVars,
                 tabsync>>

\* variant: a tap is recorded whenever a score is loaded
CanRecord_AnyBar == score

\* the guards of recordBeatMarker (editor.js 876-877)
CanRecord == score /\ currentBarToMark <= totalBars

\* variant: the marker is appended and the next bar is left as it is
RecordBeatMarker_KeepsNext(t) ==
    /\ page = "editor"
    /\ IF CanRecord
       THEN /\ beatMarkers' = Append(beatMarkers, [bar |-> currentBarToMark, time |-> t])
            /\ currentBarToMark' = currentBarToMark
            /\ tickPosition' = ScrollToBar(currentBarToMark + 1, tickPosition)
            /\ autoSaveTimeout' = ScheduleAutoSave(beatMarkers', autoSaveTimeout)
            /\ timer' = ScheduleAutoSave(beatMarkers', timer)
       ELSE UNCHANGED <<beatMarkers, currentBarToMark, tickPosition, autoSaveTimeout,
                        timer>>
    /\ last' = SessionCall("tap", t, CanRecord)
    /\ UNCHANGED <<sessionHeld, saves, tickCache, barTickMap, totalBars, score>>

\* recordBeatMarker (editor.js 875-901), wavesurfer.getCurrentTime() being t
RecordBeatMarker(t) ==
    /\ page = "editor"
    /\ IF CanRecord
       THEN /\ beatMarkers' = Append(beatMarkers, [bar |-> currentBarToMark, time |-> t])
            /\ currentBarToMark' = currentBarToMark + 1
            /\ tickPosition' = ScrollToBar(currentBarToMark + 1, tickPosition)
            /\ autoSaveTimeout' = ScheduleAutoSave(beatMarkers', autoSaveTimeout)
            /\ timer' = ScheduleAutoSave(beatMarkers', timer)
       ELSE UNCHANGED <<beatMarkers, currentBarToMark, tickPosition, autoSaveTimeout,
                        timer>>
    /\ last' = SessionCall("tap", t, CanRecord)
    /\ UNCHANGED <<sessionHeld, saves, tickCache, barTickMap, totalBars, score>>

\* variant: the list is not tested for being empty
UndoLastMarker_Unguarded ==
    /\ page = "editor"
    /\ beatMarkers' = SubSeq(beatMarkers, 1, Len(beatMarkers) - 1)
    /\ currentBarToMark' = currentBarToMark - 1
    /\ autoSaveTimeout' = ScheduleAutoSave(beatMarkers', autoSaveTimeout)
    /\ timer' = ScheduleAutoSave(beatMarkers', timer)
    /\ last' = SessionCall("undo", 0, Len(beatMarkers) # 0)
    /\ UNCHANGED <<sessionHeld, saves, tickCache, barTickMap, tickPosition, totalBars, score>>

\* variant: the last marker is removed and the next bar is left as it is
UndoLastMarker_KeepsNext ==
    /\ page = "editor"
    /\ IF Len(beatMarkers) = 0
       THEN UNCHANGED <<beatMarkers, currentBarToMark, autoSaveTimeout, timer>>
       ELSE /\ beatMarkers' = SubSeq(beatMarkers, 1, Len(beatMarkers) - 1)
            /\ currentBarToMark' = currentBarToMark
            /\ autoSaveTimeout' = ScheduleAutoSave(beatMarkers', autoSaveTimeout)
            /\ timer' = ScheduleAutoSave(beatMarkers', timer)
    /\ last' = SessionCall("undo", 0, Len(beatMarkers) # 0)
    /\ UNCHANGED <<sessionHeld, saves, tickCache, barTickMap, tickPosition, totalBars, score>>

\* undoLastMarker (editor.js 910-920)
UndoLastMarker ==
    /\ page = "editor"
    /\ IF Len(beatMarkers) = 0
       THEN UNCHANGED <<beatMarkers, currentBarToMark, autoSaveTimeout, timer>>
       ELSE /\ beatMarkers' = SubSeq(beatMarkers, 1, Len(beatMarkers) - 1)
            /\ currentBarToMark' = currentBarToMark - 1
            /\ autoSaveTimeout' = ScheduleAutoSave(beatMarkers', autoSaveTimeout)
            /\ timer' = ScheduleAutoSave(beatMarkers', timer)
    /\ last' = SessionCall("undo", 0, Len(beatMarkers) # 0)
    /\ UNCHANGED <<sessionHeld, saves, tickCache, barTickMap, tickPosition, totalBars, score>>

\* variant: the confirmation is not asked for
ClearAllMarkers_Unconfirmed(confirmed) ==
    /\ page = "editor"
    /\ IF Len(beatMarkers) = 0
       THEN UNCHANGED <<beatMarkers, currentBarToMark, saves>>
       ELSE beatMarkers' = <<>> /\ currentBarToMark' = 1 /\ saves' = Detach(saves)
    /\ last' = SessionCall("clear", 0, Len(beatMarkers) # 0)
    /\ UNCHANGED <<sessionHeld, tickCache, barTickMap, tickPosition, totalBars, score,
                   autoSaveTimeout, timer>>

\* clearAllMarkers (editor.js 922-933), confirm() returning confirmed; the
\* scheduleAutoSave call at its end returns at once, the list being empty
ClearAllMarkers(confirmed) ==
    /\ page = "editor"
    /\ IF Len(beatMarkers) = 0 \/ ~confirmed
       THEN UNCHANGED <<beatMarkers, currentBarToMark, saves>>
       ELSE beatMarkers' = <<>> /\ currentBarToMark' = 1 /\ saves' = Detach(saves)
    /\ last' = SessionCall("clear", 0, Len(beatMarkers) # 0 /\ confirmed)
    /\ UNCHANGED <<sessionHeld, tickCache, barTickMap, tickPosition, totalBars, score,
                   autoSaveTimeout, timer>>

\* variant: the next bar is not recomputed from the imported list
ApplySyncData_KeepsNext(doc) ==
    /\ page = "editor"
    /\ beatMarkers' = doc
    /\ saves' = Detach(saves)
    /\ currentBarToMark' = currentBarToMark
    /\ last' = SessionCall("import", 0, TRUE)
    /\ UNCHANGED <<sessionHeld, tickCache, barTickMap, tickPosition, totalBars, score,
                   autoSaveTimeout, timer>>

\* loadSyncFile / applySyncData (editor.js 803-839) with a document whose
\* marker list is doc
ApplySyncData(doc) ==
    /\ page = "editor"
    /\ beatMarkers' = doc
    /\ saves' = Detach(saves)
    /\ currentBarToMark' = Len(doc) + 1
    /\ last' = SessionCall("import", 0, TRUE)
    /\ UNCHANGED <<sessionHeld, tickCache, barTickMap, tickPosition, totalBars, score,
                   autoSaveTimeout, timer>>

\* onScoreLoaded (editor.js 841-873) for a score of n bars
OnScoreLoaded(n) ==
    /\ page = "editor"
    /\ score' = TRUE
    /\ totalBars' = n
    /\ tickCache' = MasterBars(n)
    /\ IF Len(beatMarkers) = 0 \/ Len(beatMarkers) > n
       THEN beatMarkers' = <<>> /\ currentBarToMark' = 1 /\ saves' = Detach(saves)
       ELSE UNCHANGED <<beatMarkers, currentBarToMark, saves>>
    /\ loads' = loads \ {[kind |-> "score", file |-> n]}
    /\ last' = SessionCall("scoreLoaded", 0, Len(beatMarkers) > n)
    /\ UNCHANGED <<page, syncData, audioFile, lastSyncedBar, lastTick, currentTime,
                   currentBar, transportVars, barTickMap, tickPosition, autoSaveTimeout,
                   timer, isSaving, projectId, library,
                   gpFileName, gpFileData, audioFileName,
                   audioFileData, tabsync>>

\* the durations of the audio files that are loaded into the editor
AudioDurations == {2, MaxTime}

\* wavesurfer 'ready' (editor.js 322-340) for audio of duration d: from now on
\* wavesurfer.getDuration() is d.  The handler touches no marker.
AudioReady(d) ==
    /\ page = "editor"
    /\ duration' = d
    /\ loads' = loads \ {[kind |-> "decode", file |-> d]}
    /\ last' = SessionCall("audioReady", d, FALSE)
    /\ UNCHANGED <<page, tickCache, barTickMap, tickPosition, syncData, currentTime,
                   currentBar, editorVars, audioBuffer, isPlaying, isLooping, pausedAt,
                   startedAt, playbackRate, audioSource, sources, animationFrame,
                   frames, ctxTime, tempoChanges, audioFile, timer, storeVars,
                   gpFileName, gpFileData, audioFileName, audioFileData, tabsync>>

\* the editor page after init(): empty, or (checkForOpenProject, editor.js
\* 134-236) holding the markers of the library project named in the URL,
\* whose score and audio load afterwards
EditorInit ==
    \E doc \in Documents :
        /\ IoInit
        /\ page = "editor"
        /\ tickCache = <<>>
        /\ barTickMap = <<>>
        /\ tickPosition = 0
        /\ syncData = <<>>
        /\ beatMarkers = doc
        /\ currentBarToMark = Len(doc) + 1
        /\ totalBars = 0
        /\ score = FALSE
        /\ autoSaveTimeout = FALSE
        /\ duration = 0
        /\ audioFile = 0
        /\ currentTime = RInt(0)
        /\ currentBar = 0
        /\ lastSyncedBar = 0
        /\ lastTick = 0
        /\ audioBuffer = FALSE
        /\ isPlaying = FALSE
        /\ isLooping = FALSE
        /\ pausedAt = RInt(0)
        /\ startedAt = RInt(0)
        /\ playbackRate = RInt(1)
        /\ audioSource = FALSE
        /\ sources = <<>>
        /\ animationFrame = FALSE
        /\ frames = 0
        /\ ctxTime = 0
        /\ tempoChanges = 0
        /\ last = NoCall

EditorNext ==
    \/ \E n \in 1..MaxBars : OnScoreLoaded(n)
    \/ RenderFinished
    \/ \E d \in AudioDurations : AudioReady(d)
    \/ \E t \in Positions(duration) : RecordBeatMarker(t)
    \/ UndoLastMarker
    \/ \E confirmed \in BOOLEAN : ClearAllMarkers(confirmed)
    \/ \E doc \in Documents : ApplySyncData(doc)

EditorSpec == EditorInit /\ [][EditorNext]_vars

(***************************************************************************)
(* Saving the editor's project (editor.js 1186-1211, 1501-1701, and         *)
(* window.TabLibrary.saveToLibrary, sync-player.js 1458-1530).  A save runs *)
(* in three turns of the event loop: the call, up to the request to open   *)
(* the store; the success of that request, in which the record is built    *)
(* and put; and the success of the put, which resolves the promise the     *)
(* call awaits.  Any handler can run in between.  The requests of the      *)
(* saves are served in the order the saves were called.                    *)
(***************************************************************************)
MaxSaves == 2          \* saves in flight that are followed
MaxStores == 3         \* records put into the store that are followed

\* gpBase64 && audioBase64: the data of both files is held (no File object
\* is left to convert when it is not)
HasFileData == gpFileData # 0 /\ audioFileData # 0

\* the projectData a save hands to the store: its kind, the id it carries
\* and the marker array it refers to (markers holds the array's content once
\* this.beatMarkers is another array); put says that the record was put
SaveRequest(kind) ==
    [kind |-> kind, id |-> projectId, live |-> TRUE, markers |-> <<>>, put |-> FALSE]

\* autoSave (editor.js 1519-1604) up to its await of the store
AutoSave ==
    IF isSaving \/ ~score \/ Len(beatMarkers) = 0 \/ ~HasFileData
    THEN UNCHANGED <<isSaving, saves>>
    ELSE /\ isSaving' = TRUE
         /\ saves' = Append(saves, SaveRequest("autoSave"))

\* the timeout of scheduleAutoSave fires (editor.js 1513-1515)
AutoSaveTimer ==
    /\ page = "editor"
    /\ timer
    /\ Len(saves) < MaxSaves
    /\ timer' = FALSE
    /\ AutoSave
    /\ last' = SessionCall("autoSave", 0, saves' # saves)
    /\ UNCHANGED <<page, tickCache, barTickMap, tickPosition, syncData, currentTime,
                   currentBar, audioFile, editorVars, transportVars, projectId,
                   library, loadVars, tabsync>>

\* showShareModal (editor.js 1186-1211) up to its await of autoSave
ShowShareModal ==
    /\ page = "editor"
    /\ Len(saves) < MaxSaves
    /\ IF projectId = 0 /\ HasFileData THEN AutoSave ELSE UNCHANGED <<isSaving, saves>>
    /\ last' = SessionCall("showShareModal", 0, saves' # saves)
    /\ UNCHANGED <<page, tickCache, barTickMap, tickPosition, syncData, currentTime,
                   currentBar, audioFile, editorVars, transportVars, projectId,
                   library, timer, loadVars, tabsync>>

\* saveToLibrary (editor.js 1632-1701) up to its await of the store
SaveToLibrary ==
    /\ page = "editor"
    /\ Len(saves) < MaxSaves
    /\ IF ~score \/ Len(beatMarkers) = 0
       THEN UNCHANGED <<autoSaveTimeout, timer, isSaving, saves>>
       ELSE /\ autoSaveTimeout' = FALSE
            /\ timer' = FALSE
            /\ isSaving' = TRUE
            /\ saves' = Append(saves, SaveRequest("saveToLibrary"))
    /\ last' = SessionCall("saveToLibrary", 0, saves' # saves)
    /\ UNCHANGED <<page, tickCache, barTickMap, tickPosition, syncData, currentTime,
                   currentBar, audioFile, beatMarkers, lastSyncedBar, lastTick,
                   currentBarToMark, totalBars, score, transportVars, projectId,
                   library, loadVars, tabsync>>

\* id: projectData.id || (Date.now().toString(36) + Math.random()...), an id
\* no record has
NewId == Cardinality(library) + 1

\* new Date().toISOString(): the time of a put, later than every time stored
Now ==
    LET stamps == {r.updatedAt : r \in library}
    IN  IF stamps = {} THEN 1 ELSE 1 + (CHOOSE x \in stamps : \A y \in stamps : y <= x)

\* the first save in flight whose record was not put yet (0 when none)
NextPut ==
    LET q == {i \in 1..Len(saves) : ~saves[i].put}
    IN  IF q = {} THEN 0 ELSE CHOOSE i \in q : \A j \in q : i <= j

\* the project record window.TabLibrary.saveToLibrary builds from the
\* projectData of a save (sync-player.js 1481-1494).  The editor's
\* projectData has no createdAt member, so createdAt is the time of the put.
StoredProject(req) ==
    [id |-> IF req.id # 0 THEN req.id ELSE NewId,
     markers |-> IF req.live THEN beatMarkers ELSE req.markers,
     createdAt |-> Now,
     updatedAt |-> Now]

\* the request to open the store succeeds for the oldest save that waits
\* for it (sync-player.js 1476-1507): the record is built and put, which
\* copies it and replaces the record of the same id
SavePut ==
    /\ page = "editor"
    /\ NextPut # 0
    /\ Now <= MaxStores
    /\ LET project == StoredProject(saves[NextPut])
       IN  /\ library' = {r \in library : r.id # project.id} \cup {project}
           /\ saves' = [saves EXCEPT ![NextPut] =
                           [@ EXCEPT !.put = TRUE, !.id = project.id, !.live = FALSE,
                                     !.markers = <<>>]]
    /\ last' = SessionCall("savePut", 0, TRUE)
    /\ UNCHANGED <<page, tickCache, barTickMap, tickPosition, syncData, currentTime,
                   currentBar, audioFile, editorVars, transportVars, timer, isSaving,
                   projectId, loadVars, tabsync>>

\* variant: the save that failed leaves the in-progress flag set
SaveFailed_StaysSaving ==
    /\ page = "editor"
    /\ NextPut # 0
    /\ saves' = SubSeq(saves, 1, NextPut - 1) \o SubSeq(saves, NextPut + 1, Len(saves))
    /\ isSaving' = isSaving
    /\ last' = SessionCall("saveFailed", 0, FALSE)
    /\ UNCHANGED <<page, tickCache, barTickMap, tickPosition, syncData, currentTime,
                   currentBar, audioFile, editorVars, transportVars, timer, projectId,
                   library, loadVars, tabsync>>

\* the put of the oldest save in flight succeeds (sync-player.js 1509-1512)
\* and the save that awaited it continues (editor.js 1590-1603, 1687-1700)
SaveStored ==
    /\ page = "editor"
    /\ saves # <<>>
    /\ Head(saves).put
    /\ projectId' = Head(saves).id
    /\ saves' = Tail(saves)
    /\ isSaving' = FALSE
    /\ last' = SessionCall("saveStored", 0, TRUE)
    /\ UNCHANGED <<page, tickCache, barTickMap, tickPosition, syncData, currentTime,
                   currentBar, audioFile, editorVars, transportVars, timer, library,
                   loadVars, tabsync>>

\* the request to open the store, or the put, fails for the oldest save
\* whose record was not put (sync-player.js 1471-1474, 1500-1503,
\* 1513-1516): the promise is rejected and the save's catch block runs
SaveFailed ==
    /\ page = "editor"
    /\ NextPut # 0
    /\ saves' = SubSeq(saves, 1, NextPut - 1) \o SubSeq(saves, NextPut + 1, Len(saves))
    /\ isSaving' = FALSE
    /\ last' = SessionCall("saveFailed", 0, FALSE)
    /\ UNCHANGED <<page, tickCache, barTickMap, tickPosition, syncData, currentTime,
                   currentBar, audioFile, editorVars, transportVars, timer, projectId,
                   library, loadVars, tabsync>>

\* the editor with a score of MaxBars bars rendered and the data of its file
\* held; audio of duration MaxTime is loaded or no audio is; the session is
\* new, or it is the project with id 1 opened from the library, which was
\* saved with at least one marker
SaveInit ==
    \E doc \in Documents, audio \in {0, MaxTime}, opened \in BOOLEAN :
        /\ Len(doc) <= MaxBars
        /\ opened => Len(doc) > 0 /\ audio # 0
        /\ page = "editor"
        /\ tickCache = MasterBars(MaxBars)
        /\ barTickMap = BuildBarTickMap(MasterBars(MaxBars))
        /\ tickPosition = 0
        /\ syncData = <<>>
        /\ beatMarkers = doc
        /\ currentBarToMark = Len(doc) + 1
        /\ totalBars = MaxBars
        /\ score = TRUE
        /\ autoSaveTimeout = FALSE
        /\ timer = FALSE
        /\ isSaving = FALSE
        /\ projectId = IF opened THEN 1 ELSE 0
        /\ saves = <<>>
        /\ library = IF opened
                     THEN {[id |-> 1, markers |-> doc, createdAt |-> 1, updatedAt |-> 1]}
                     ELSE {}
        /\ gpFileName = MaxBars
        /\ gpFileData = MaxBars
        /\ audioFileName = audio
        /\ audioFileData = audio
        /\ loads = {}
        /\ tabsync = <<>>
        /\ duration = audio
        /\ audioFile = audio
        /\ currentTime = RInt(0)
        /\ currentBar = 0
        /\ lastSyncedBar = 0
        /\ lastTick = 0
        /\ audioBuffer = FALSE
        /\ isPlaying = FALSE
        /\ isLooping = FALSE
        /\ pausedAt = RInt(0)
        /\ startedAt = RInt(0)
        /\ playbackRate = RInt(1)
        /\ audioSource = FALSE
        /\ sources = <<>>
        /\ animationFrame = FALSE
        /\ frames = 0
        /\ ctxTime = 0
        /\ tempoChanges = 0
        /\ last = NoCall

\* taps are made at the end of the audio, a time no marker of an opened
\* document has for its bar
SaveNext ==
    \/ \E t \in {duration} : RecordBeatMarker(t)
    \/ UndoLastMarker
    \/ \E confirmed \in BOOLEAN : ClearAllMarkers(confirmed)
    \/ AutoSaveTimer
    \/ ShowShareModal
    \/ SaveToLibrary
    \/ SavePut
    \/ SaveStored
    \/ SaveFailed

SaveSpec == SaveInit /\ [][SaveNext]_vars

\* the editor when autoSave is the only save that is called: by the timeout
\* of scheduleAutoSave and by showShareModal
AutoSaveNext ==
    \/ \E t \in {duration} : RecordBeatMarker(t)
    \/ UndoLastMarker
    \/ \E confirmed \in BOOLEAN : ClearAllMarkers(confirmed)
    \/ AutoSaveTimer
    \/ ShowShareModal
    \/ SavePut
    \/ SaveStored
    \/ SaveFailed

AutoSaveSpec == SaveInit /\ [][AutoSaveNext]_vars

\* the same editor with a store that never fails
ReliableNext ==
    \/ \E t \in {duration} : RecordBeatMarker(t)
    \/ UndoLastMarker
    \/ \E confirmed \in BOOLEAN : ClearAllMarkers(confirmed)
    \/ AutoSaveTimer
    \/ ShowShareModal
    \/ SavePut
    \/ SaveStored

\* a timeout that is pending fires, and a request the store has accepted is
\* served; what the user does is up to the user
ReliableSpec ==
    /\ SaveInit
    /\ [][ReliableNext]_vars
    /\ WF_vars(AutoSaveTimer)
    /\ WF_vars(SavePut)
    /\ WF_vars(SaveStored)

(***************************************************************************)
(* Loading files into the editor (editor.js 703-801).  A score file is     *)
(* numbered by the bars of its score, an audio file by its duration, so    *)
(* that the state a load derives (totalBars, the tick cache, the duration) *)
(* tells which file it came from.  A load is a chain of callbacks: the     *)
(* file is read, then alphaTab loads the score or wavesurfer decodes the   *)
(* audio.  The reads of different files complete in any order; alphaTab   *)
(* and wavesurfer are taken to answer their latest load call only.         *)
(***************************************************************************)
MaxLoads == 2          \* loads in progress that are followed

\* the number of an audio file that cannot be decoded
Undecodable == 0 - 1

GPFiles == 1..MaxBars
AudioFiles == AudioDurations \cup {Undecodable}

Pending(kind, f) == [kind |-> kind, file |-> f]

\* the callbacks pending after the read of file f has completed and the
\* file was handed to the library, whose call of that kind replaces the
\* call it was still working on
HandOver(read, kind, f) ==
    {l \in loads : l # Pending(read, f) /\ l.kind # kind} \cup {Pending(kind, f)}

loadHeld == <<page, tickCache, barTickMap, tickPosition, syncData, currentTime,
              currentBar, editorVars, transportVars, storeVars, timer, tabsync>>

\* loadGPFile (editor.js 703-738) up to reader.readAsArrayBuffer
LoadGPFile(f) ==
    /\ page = "editor"
    /\ Cardinality(loads) < MaxLoads
    /\ gpFileName' = f
    /\ loads' = loads \cup {Pending("gpRead", f)}
    /\ last' = SessionCall("loadGPFile", f, FALSE)
    /\ UNCHANGED <<loadHeld, audioFile, gpFileData, audioFileName, audioFileData>>

\* reader.onload of loadGPFile (editor.js 725-731): the data is stored and
\* handed to alphaTab.load
GPFileRead(f) ==
    /\ page = "editor"
    /\ Pending("gpRead", f) \in loads
    /\ gpFileData' = f
    /\ loads' = HandOver("gpRead", "score", f)
    /\ last' = SessionCall("gpFileRead", f, FALSE)
    /\ UNCHANGED <<loadHeld, audioFile, gpFileName, audioFileName, audioFileData>>

\* alphaTab's scoreLoaded for a load that is pending
ScoreLoaded(f) ==
    /\ Pending("score", f) \in loads
    /\ OnScoreLoaded(f)

\* loadAudioFile (editor.js 740-763) up to its await of fileToBase64
LoadAudioFile(f) ==
    /\ page = "editor"
    /\ Cardinality(loads) < MaxLoads
    /\ audioFile' = f
    /\ audioFileName' = f
    /\ loads' = loads \cup {Pending("audioRead", f)}
    /\ last' = SessionCall("loadAudioFile", f, FALSE)
    /\ UNCHANGED <<loadHeld, duration, gpFileName, gpFileData, audioFileData>>

\* loadAudioFile after fileToBase64 has resolved (editor.js 763-789): the
\* data is stored and wavesurfer.loadBlob is called with the file
AudioFileRead(f) ==
    /\ page = "editor"
    /\ Pending("audioRead", f) \in loads
    /\ audioFileData' = f
    /\ loads' = HandOver("audioRead", "decode", f)
    /\ last' = SessionCall("audioFileRead", f, FALSE)
    /\ UNCHANGED <<loadHeld, duration, audioFile, gpFileName, gpFileData, audioFileName>>

\* wavesurfer's 'ready' for a decode that is pending
AudioDecodeDone(f) ==
    /\ f \in AudioDurations
    /\ Pending("decode", f) \in loads
    /\ AudioReady(f)

\* wavesurfer's 'error' and the rejection of loadBlob (editor.js 342-353,
\* 791-800) for a file that cannot be decoded: both handlers report and
\* change no field.  What wavesurfer holds after a failed load is its own
\* matter: the audio it had (kept) or none.
AudioDecodeFailed(f, kept) ==
    /\ page = "editor"
    /\ f = Undecodable
    /\ Pending("decode", f) \in loads
    /\ loads' = loads \ {Pending("decode", f)}
    /\ duration' = IF kept THEN duration ELSE 0
    /\ last' = SessionCall("audioError", f, FALSE)
    /\ UNCHANGED <<loadHeld, audioFile, gpFileName, gpFileData, audioFileName,
                   audioFileData>>

\* the editor page after init(), nothing selected
LoadInit == EditorInit /\ beatMarkers = <<>>

LoadNext ==
    \/ \E f \in GPFiles : LoadGPFile(f)
    \/ \E f \in GPFiles : GPFileRead(f)
    \/ \E f \in GPFiles : ScoreLoaded(f)
    \/ RenderFinished
    \/ \E f \in AudioFiles : LoadAudioFile(f)
    \/ \E f \in AudioFiles : AudioFileRead(f)
    \/ \E f \in AudioFiles : AudioDecodeDone(f)
    \/ \E f \in AudioFiles, kept \in BOOLEAN : AudioDecodeFailed(f, kept)

LoadSpec == LoadInit /\ [][LoadNext]_vars

\* ---------------------------------------------------------------------------
\* The interchange document.  TabLibrary.exportProject writes a project of
\* the library as JSON text; the player and the editor read such a text
\* back.  A JSON text is modelled by its structure: an object is the
\* sequence of its members <<key, value>> in the order they are written, an
\* array is the sequence of its elements.  Numbers are written and read back
\* as the same numbers (JSON.stringify and JSON.parse round-trip every finite
\* number).

\* The projects TabLibrary.saveToLibrary can have stored: any marker list,
\* and a bar count (0 when the caller gave none).
LibraryProjects ==
    {[markers |-> doc, totalBars |-> n] : doc \in Documents, n \in 0..MaxBars}

StringifyMarker(m) == << <<"bar", m.bar>>, <<"time", m.time>> >>

StringifyMarkers(ms) == [i \in 1..Len(ms) |-> StringifyMarker(ms[i])]

ExportDocument_NoTotalBars(p) ==
    << <<"version", 2>>,
       <<"markers", StringifyMarkers(p.markers)>> >>

\* exportProject: the members of syncData that carry the synchronisation
\* (version, totalBars, markers), in the order of the object literal.
ExportDocument(p) ==
    << <<"version", 2>>,
       <<"totalBars", p.totalBars>>,
       <<"markers", StringifyMarkers(p.markers)>> >>

\* Reading a member of a parsed object: absent for a key the text does not
\* hold (JavaScript's undefined).
HasMember(text, key) == \E i \in 1..Len(text) : text[i][1] = key

Member(text, key) ==
    text[CHOOSE i \in 1..Len(text) :
            /\ text[i][1] = key
            /\ \A j \in (i + 1)..Len(text) : text[j][1] # key][2]

ParseMarker(t) == [bar |-> Member(t, "bar"), time |-> Member(t, "time")]

\* syncData.markers of the parsed document; an absent member is no marker.
ParsedMarkers(text) ==
    IF HasMember(text, "markers")
    THEN LET ms == Member(text, "markers")
         IN  [i \in 1..Len(ms) |-> ParseMarker(ms[i])]
    ELSE <<>>

\* this.syncData.totalBars || 0
ParsedTotalBars(text) ==
    IF HasMember(text, "totalBars") THEN Member(text, "totalBars") ELSE 0

interchangeHeld == <<page, tickCache, barTickMap, tickPosition, audioFile, storeVars,
                     timer, loadVars, transportVars, currentTime, currentBar,
                     beatMarkers, lastSyncedBar, lastTick, currentBarToMark, score,
                     autoSaveTimeout>>

ExportProject(p) ==
    /\ tabsync' = ExportDocument(p)
    /\ last' = [op |-> "exportProject"]
    /\ UNCHANGED <<interchangeHeld, syncData, totalBars>>

\* SyncedPlayer.loadSyncFile with the downloaded file, and onSyncDataLoaded.
PlayerLoadSyncFile ==
    /\ page = "player"
    /\ tabsync # <<>>
    /\ syncData' = ParsedMarkers(tabsync)
    /\ totalBars' = ParsedTotalBars(tabsync)
    /\ last' = [op |-> "loadSyncFile"]
    /\ UNCHANGED <<interchangeHeld, tabsync>>

\* SyncEditor.loadSyncFile with the downloaded file: applySyncData of the
\* parsed document, which takes the markers when the document has them.
EditorLoadSyncFile ==
    /\ page = "editor"
    /\ tabsync # <<>>
    /\ HasMember(tabsync, "markers")
    /\ ApplySyncData(ParsedMarkers(tabsync))

InterchangeInit ==
    \/ EditorInit
    \/ \E doc \in Documents :
          LoadedInit("player", [markers |-> doc, duration |-> LongDuration,
                                bars |-> MaxBars])

InterchangeNext ==
    \/ \E p \in LibraryProjects : ExportProject(p)
    \/ PlayerLoadSyncFile
    \/ EditorLoadSyncFile
    \/ \E n \in 1..MaxBars : OnScoreLoaded(n)
    \/ RenderFinished

InterchangeSpec == InterchangeInit /\ [][InterchangeNext]_vars

(***************************************************************************)
(* Vocabulary of the resolver claims.                                      *)
(***************************************************************************)
PageMarkers == IF page = "editor" THEN beatMarkers ELSE syncData

Resolved == last.op \in {"updateCursor", "highlightCurrentBar", "standaloneUpdateCursor"}

\* the call computed a progress (player and editor interpolate, the
\* standalone player does not)
Interpolated == last.op \in {"updateCursor", "highlightCurrentBar"} /\ last.computed

\* indices of the markers whose time is <= t
Reached(ms, t) == {i \in 1..Len(ms) : RLe(RInt(ms[i].time), t)}

LastReached(ms, t) == CHOOSE i \in Reached(ms, t) : \A j \in Reached(ms, t) : j <= i

NonDecreasing(ms) == \A i \in 1..(Len(ms) - 1) : ms[i].time <= ms[i + 1].time

StrictlyIncreasing(ms) == \A i \in 1..(Len(ms) - 1) : ms[i].time < ms[i + 1].time

\* t lies in [time_i, time_{i+1})
InBar(ms, i, t) ==
    /\ i \in 1..(Len(ms) - 1)
    /\ RLe(RInt(ms[i].time), t)
    /\ RLt(t, RInt(ms[i + 1].time))

\* C1: whenever a resolver has run and some marker has time <= t', the marker
\* it treated as active is the last marker in insertion order with time <= t'
\* (stated for all three resolvers and all marker lists).
C1_ActiveIsLastReached ==
    (Resolved /\ Reached(PageMarkers, last.t) # {})
        => last.idx = LastReached(PageMarkers, last.t)

\* C2: whenever a resolver has run and no marker has time <= t', it produced
\* no symbolic position: it set no bar and applied no tick to the renderer.
C2_PreSyncNoPosition ==
    (Resolved /\ Reached(PageMarkers, last.t) = {})
        => (last.bar = 0 /\ ~last.applied)

\* C3: for strictly increasing marker times and t' in [time_i, time_{i+1}) the
\* player and the editor yield bar_i and, when they interpolate, progress
\* (t' - time_i) / (time_{i+1} - time_i); in the scenario (taps at 0.0, 2.0,
\* 4.1, 6.0 s, resolved at 3.0 s with offset 0) that is bar 2, progress 1.0/2.1.
C3_ProgressWithinBar ==
    /\ \A i \in 1..Len(PageMarkers) :
        (/\ last.op \in {"updateCursor", "highlightCurrentBar"}
         /\ StrictlyIncreasing(PageMarkers)
         /\ InBar(PageMarkers, i, last.t))
        => /\ last.bar = PageMarkers[i].bar
           /\ last.computed =>
                last.progress = RDiv(RSub(last.t, RInt(PageMarkers[i].time)),
                                     RInt(PageMarkers[i + 1].time - PageMarkers[i].time))
    /\ (/\ last.op = "highlightCurrentBar"
        /\ beatMarkers = MarkersOf(Scenario.times)
        /\ last.t = RInt(Scenario.t))
        => (last.bar = 2 /\ (last.computed => last.progress = <<10, 21>>))

C3_Witness ==
    /\ last.op = "highlightCurrentBar"
    /\ beatMarkers = MarkersOf(Scenario.times)
    /\ last.t = RInt(Scenario.t)
    /\ last.computed
    /\ last.bar = 2
    /\ last.progress = <<10, 21>>

\* C4: when the last marker of the list is the active one, the bar ends at the
\* audio duration: progress = clamp((t' - lastTime) / (duration - lastTime), 0, 1),
\* and progress is 1 once the audio time t has reached the duration (player
\* and editor).
C4_LastBarEndsAtDuration ==
    LET ms == PageMarkers
        n == Len(ms)
        time == IF last.op = "updateCursor" THEN currentTime ELSE last.t
    IN  (/\ Interpolated
         /\ n > 0
         /\ Reached(ms, last.t) # {}
         /\ LastReached(ms, last.t) = n
         /\ duration > ms[n].time)
        => /\ last.progress =
                Clamp01(RDiv(RSub(last.t, RInt(ms[n].time)), RInt(duration - ms[n].time)))
           /\ RLe(RInt(duration), time) => last.progress = RInt(1)

\* C5: every progress a resolver computes is a defined number in [0,1], for
\* every marker list (equal or decreasing times included); a bar whose end is
\* not after its start has progress 0.
C5_ProgressInUnitInterval ==
    /\ Interpolated =>
        /\ last.progress[2] > 0
        /\ RLe(RInt(0), last.progress)
        /\ RLe(last.progress, RInt(1))
    /\ \A t \in ResolveTimes, c \in Times, n \in Times :
        n <= c =>
            /\ PlayerProgress(RInt(t), c, n) = RInt(0)
            /\ EditorProgress(RInt(t), c, [absent |-> FALSE, time |-> n]) = RInt(0)

\* a progress was computed for a list with a zero-length or backwards bar
C5_Witness ==
    /\ Interpolated
    /\ ~StrictlyIncreasing(PageMarkers)
    /\ Reached(PageMarkers, last.t) # {}

\* C6: for non-decreasing marker times, two resolutions at t1 <= t2 that both
\* lie between the times of the same two consecutive markers both yield the
\* earlier marker's bar, and the second progress is not below the first.
C6_ProgressMonotone ==
    [][\A i \in 1..Len(PageMarkers) :
        (/\ Interpolated /\ Interpolated'
         /\ NonDecreasing(PageMarkers)
         /\ InBar(PageMarkers, i, last.t)
         /\ InBar(PageMarkers, i, last'.t)
         /\ RLe(last.t, last'.t))
        => /\ last.bar = PageMarkers[i].bar
           /\ last'.bar = PageMarkers[i].bar
           /\ RLe(last.progress, last'.progress)]_vars

\* a resolution strictly inside a bar of a list with non-decreasing times
C6_Witness ==
    /\ Interpolated
    /\ NonDecreasing(PageMarkers)
    /\ \E i \in 1..Len(PageMarkers) : InBar(PageMarkers, i, last.t)
    /\ RLt(RInt(0), last.progress)
    /\ RLt(last.progress, RInt(1))

\* the range of the bar the last call resolved to
LastRange == barTickMap[last.bar]

\* C7 as stated: the tick is range.start + round((range.end - range.start) * progress)
C7_TickIsRounded ==
    Interpolated =>
        last.tick = LastRange.start
            + RRound(RMul(RInt(LastRange.end - LastRange.start), last.progress))

\* C7 amended: the interpolated tick is
\* range.start + floor((range.end - range.start) * progress), and when the
\* resolver applies a tick, that is the renderer's position.
C7_TickIsFloored ==
    Interpolated =>
        /\ last.tick = LastRange.start
            + (((LastRange.end - LastRange.start) * last.progress[1]) \div last.progress[2])
        /\ last.applied => tickPosition = last.tick

\* an interpolated tick strictly inside a bar was applied
C7_Witness ==
    /\ Interpolated
    /\ last.applied
    /\ LastRange.start < last.tick
    /\ last.tick < LastRange.end
    /\ tickPosition = last.tick

(***************************************************************************)
(* Vocabulary of the transport claims.                                     *)
(***************************************************************************)
\* the position the controller computes from the audio clock
ClockPosition ==
    IF page = "player" THEN RMul(RSub(RInt(ctxTime), startedAt), playbackRate)
    ELSE RSub(RInt(ctxTime), startedAt)

\* the controller is playing and the source it refers to sounds position x
PlayingFrom(x) ==
    /\ isPlaying
    /\ ClockPosition = x
    /\ \E i \in 1..Len(sources) : sources[i].cur /\ sources[i].pos = x

\* the time a resolver is handed for the audio position x
ResolveTime(x) == IF page = "player" THEN RAdd(x, RInt(NotationOffset)) ELSE x

\* this step is a call of the page's seekTo with argument x
SeekStep(x) ==
    /\ last'.op = "seekTo"
    /\ SeekToCalled(x) \/ StandaloneSeekTo(x)

\* this step is the ended handler of some source
EndedStep ==
    /\ last'.op = "ended"
    /\ \E i \in 1..MaxSources : Ended(i)

\* C8: in SyncedPlayer, an ended event that fires while playing ends, when
\* isLooping, in the playing state from position 0 (stored position 0, clock
\* position 0, a current source at 0), and otherwise in the stopped state
\* (not playing, stored position 0, currentTime 0, no current source); a
\* toggleLoop call negates isLooping and changes nothing else of the transport.
C8_EndedLoopsOrStops ==
    [][/\ (EndedStep /\ isPlaying /\ isLooping) =>
            (pausedAt' = RInt(0) /\ PlayingFrom(RInt(0))')
       /\ (EndedStep /\ isPlaying /\ ~isLooping) =>
            /\ ~isPlaying'
            /\ pausedAt' = RInt(0)
            /\ currentTime' = RInt(0)
            /\ \A i \in 1..Len(sources') : ~sources'[i].cur
       /\ (last'.op = "toggleLoop" /\ last' # last) =>
            /\ isLooping' = ~isLooping
            /\ UNCHANGED <<isPlaying, pausedAt, startedAt, playbackRate, audioSource,
                           sources, animationFrame, frames, ctxTime, currentTime,
                           currentBar, tickPosition>>]_vars

\* an ended handler found the player playing and looping and left it playing
\* from 0 after the clock had advanced
C8_Witness ==
    /\ last.op = "ended"
    /\ last.wasPlaying
    /\ last.wasLooping
    /\ ctxTime > 0
    /\ PlayingFrom(RInt(0))

\* C9: a seekTo(x) call made while playing ends playing, with the audio
\* position equal to x clamped to [0, duration], and has resolved the cursor
\* for that position (and applied the tick it computed) within the call; a
\* seekTo call made while not playing ends not playing.
C9_SeekKeepsTransportState ==
    [][\A x \in SeekArgs(audioFile) :
          SeekStep(x) =>
             IF isPlaying
             THEN /\ PlayingFrom(ClampTime(RInt(x)))'
                  /\ last'.ran
                  /\ last'.t = ResolveTime(ClampTime(RInt(x)))
                  /\ last'.applied => tickPosition' = last'.tick
             ELSE ~isPlaying']_vars

\* C10: after any seekTo(x) call, in whatever transport state it was made,
\* the stored position is max(0, min(x, duration)).
C10_SeekClamps ==
    [][\A x \in SeekArgs(audioFile) :
          SeekStep(x) => pausedAt' = ClampTime(RInt(x))]_vars

\* the fields of the transport a handler can write
Transport ==
    <<isPlaying, pausedAt, startedAt, playbackRate, audioSource, sources,
      animationFrame, frames, ctxTime, currentTime, currentBar, tickPosition>>

\* this step is togglePlayPause calling pause() / calling play()
PauseStep == last'.op = "togglePlayPause" /\ isPlaying /\ TogglePlayPause
PlayStep == last'.op = "togglePlayPause" /\ ~isPlaying /\ TogglePlayPause

StopStep == last'.op = "stop" /\ StopPressed

PlaysFromAfter(x) ==
    /\ isPlaying'
    /\ ClockPosition' = x
    /\ \E i \in 1..Len(sources') : sources'[i].cur /\ sources'[i].pos = x

\* this step is a call of previousBar() / nextBar()
PreviousBarStep == last'.op = "previousBar" /\ PreviousBar
NextBarStep == last'.op = "nextBar" /\ NextBar

\* the marker times strictly before currentTime - 0.1 s / after currentTime + 0.1 s
TimesBefore ==
    {syncData[i].time : i \in {j \in 1..Len(syncData) :
        RLt(RInt(syncData[j].time), RSub(currentTime, RInt(Debounce)))}}

TimesAfter ==
    {syncData[i].time : i \in {j \in 1..Len(syncData) :
        RLt(RAdd(currentTime, RInt(Debounce)), RInt(syncData[j].time))}}

Greatest(S) == CHOOSE x \in S : \A y \in S : y <= x
Smallest(S) == CHOOSE x \in S : \A y \in S : x <= y

\* C13: with non-decreasing marker times, previousBar() seeks to the greatest
\* marker time strictly below currentTime - 0.1 s, or to 0 when there is
\* none; nextBar() seeks to the smallest marker time strictly above
\* currentTime + 0.1 s, and changes nothing when there is none; after either
\* the player is playing exactly if it was before.
C13_BarStepping ==
    [][NonDecreasing(syncData) =>
          /\ PreviousBarStep =>
               LET target == IF TimesBefore = {} THEN 0 ELSE Greatest(TimesBefore)
               IN  /\ last'.arg = RInt(target)
                   /\ pausedAt' = RInt(target)
                   /\ currentTime' = RInt(target)
                   /\ isPlaying' = isPlaying
                   /\ isPlaying => PlaysFromAfter(RInt(target))
          /\ NextBarStep =>
               IF TimesAfter = {} THEN UNCHANGED Transport
               ELSE /\ last'.arg = RInt(Smallest(TimesAfter))
                    /\ pausedAt' = RInt(Smallest(TimesAfter))
                    /\ currentTime' = RInt(Smallest(TimesAfter))
                    /\ isPlaying' = isPlaying
                    /\ isPlaying => PlaysFromAfter(RInt(Smallest(TimesAfter)))]_vars

\* previousBar() was called while playing with two markers behind the
\* position, the nearer one within the debounce, and went to the farther one
C13_Witness ==
    /\ last.op = "previousBar"
    /\ last.wasPlaying
    /\ isPlaying
    /\ Len(syncData) = 2
    /\ syncData[1].time = 1
    /\ syncData[2].time = 3
    /\ last.arg = RInt(1)
    /\ currentTime = RInt(1)

\* this step is the tempo slider's input handler with value v (percent)
SetTempoStep(v) == last'.op = "setTempo" /\ last'.arg = RInt(v) /\ SetTempo(v)

\* C14: a tempo input whose multiplier is <= 0 is rejected, leaving the stored
\* rate and the rate of every source unchanged; a multiplier > 0 is stored
\* and is the rate of the current source as soon as the handler returns.
C14_InvalidRateRejected ==
    [][\A v \in TempoInputs :
          SetTempoStep(v) =>
             IF v <= 0
             THEN UNCHANGED <<playbackRate, sources>>
             ELSE /\ playbackRate' = Rat(v, 100)
                  /\ \A i \in 1..Len(sources') :
                        sources'[i].cur => sources'[i].rate = Rat(v, 100)]_vars

(***************************************************************************)
(* Vocabulary of the marker session claims.                                *)
(***************************************************************************)
\* this step is a call of recordBeatMarker / undoLastMarker / clearAllMarkers
TapStep == last'.op = "tap" /\ \E t \in Positions(duration) : RecordBeatMarker(t)
UndoStep == last'.op = "undo" /\ UndoLastMarker
ClearStep(confirmed) == last'.op = "clear" /\ ClearAllMarkers(confirmed)

\* C15: a tap made while currentBarToMark > totalBars changes neither the
\* marker list (so not its length) nor currentBarToMark, nor anything else a
\* tap writes; currentBarToMark > totalBars therefore still holds after it,
\* and the next tap is a no-op as well.
C15_TapWhenCompleteIsNoOp ==
    [][(TapStep /\ currentBarToMark > totalBars) =>
          /\ UNCHANGED <<beatMarkers, currentBarToMark, totalBars, tickPosition,
                         autoSaveTimeout>>
          /\ currentBarToMark' > totalBars']_vars

\* every bar of a loaded score is marked and a tap has been ignored
C15_Witness ==
    /\ last.op = "tap"
    /\ ~last.changed
    /\ score
    /\ totalBars = MaxBars
    /\ Len(beatMarkers) = totalBars
    /\ currentBarToMark = totalBars + 1

\* C16: a tap made while no score is loaded, or while no audio is loaded
\* (duration 0), leaves the marker list and currentBarToMark unchanged.
C16_TapNeedsScoreAndAudio ==
    [][(TapStep /\ (~score \/ duration = 0)) =>
          UNCHANGED <<beatMarkers, currentBarToMark>>]_vars

\* C17: an undo that directly follows a tap that appended leaves the marker
\* list equal, element for element, to the list the tap found, and
\* currentBarToMark equal to the value the tap found.
C17_TapUndoRoundTrip ==
    [][(UndoStep /\ last.op = "tap" /\ last.changed) =>
          /\ beatMarkers' = last.markers
          /\ currentBarToMark' = last.next]_vars

\* an undo directly after a tap that appended the second marker
C17_Witness ==
    /\ last.op = "undo"
    /\ last.changed
    /\ last.afterTap
    /\ Len(beatMarkers) = 1
    /\ currentBarToMark = 2

\* C18: undo on a non-empty list removes its last element, keeps the others
\* and decrements currentBarToMark; on an empty list it changes neither; and
\* currentBarToMark >= 1 in every reachable state.
C18_UndoRemovesLast ==
    /\ [][UndoStep =>
            IF Len(beatMarkers) = 0
            THEN UNCHANGED <<beatMarkers, currentBarToMark>>
            ELSE /\ Len(beatMarkers') = Len(beatMarkers) - 1
                 /\ \A i \in 1..Len(beatMarkers') : beatMarkers'[i] = beatMarkers[i]
                 /\ currentBarToMark' = currentBarToMark - 1]_vars
    /\ [](currentBarToMark >= 1)

\* an undo has emptied the list, after another handler than a tap
C18_Witness ==
    /\ last.op = "undo"
    /\ last.changed
    /\ ~last.afterTap
    /\ beatMarkers = <<>>
    /\ currentBarToMark = 1

\* C19: clear with the confirmation accepted leaves an empty list and
\* currentBarToMark = 1; with the confirmation declined, or on an empty list,
\* it leaves both unchanged.
C19_ClearNeedsConfirmation ==
    [][\A confirmed \in BOOLEAN :
          ClearStep(confirmed) =>
             IF confirmed /\ Len(beatMarkers) # 0
             THEN beatMarkers' = <<>> /\ currentBarToMark' = 1
             ELSE UNCHANGED <<beatMarkers, currentBarToMark>>]_vars

\* a clear was declined on a list of two markers
C19_Witness ==
    /\ last.op = "clear"
    /\ ~last.changed
    /\ Len(beatMarkers) = 2
    /\ currentBarToMark = 3

C21_MarkersWithinAudio ==
    (page = "editor" /\ duration > 0) =>
        \A i \in 1..Len(beatMarkers) :
            /\ beatMarkers[i].bar >= 1
            /\ 0 <= beatMarkers[i].time
            /\ beatMarkers[i].time <= duration

\* this step is a call of the page's resolver
ResolveStep ==
    /\ last'.op \in {"updateCursor", "highlightCurrentBar", "standaloneUpdateCursor"}
    /\ \E t \in ResolveTimes :
          PlayerResolve(t) \/ EditorAudioprocess(t) \/ EditorSeeking(t) \/ StandaloneResolve(t)

\* C22: a resolver call made while the tick map is empty, or whose active
\* marker has a bar the tick map has no range for, assigns no tick and leaves
\* the renderer cursor where it was; the call completes (its locals are the
\* record of the step).
C22_NoTickWithoutRange ==
    [][(/\ ResolveStep
        /\ \/ barTickMap = <<>>
           \/ last'.bar # 0 /\ ~HasBar(barTickMap, last'.bar)) =>
          /\ ~last'.applied
          /\ tickPosition' = tickPosition]_vars

\* with the tick map of a one-bar score built and the cursor inside bar 1, a
\* call resolved to bar 2 and left the cursor there
C22_Witness ==
    /\ Resolved
    /\ barTickMap # <<>>
    /\ last.bar = 2
    /\ ~HasBar(barTickMap, last.bar)
    /\ ~last.applied
    /\ tickPosition > 0

\* this step is highlightCurrentBar called by the 'audioprocess' handler
AudioprocessStep ==
    /\ last'.op = "highlightCurrentBar"
    /\ \E t \in ResolveTimes : EditorAudioprocess(t)

\* the call before this one was an emission: it applied last.tick for last.bar
JustEmitted == last.op = "highlightCurrentBar" /\ last.applied

\* C23: when the call before emitted a tick for a bar, and this call finds the
\* same bar active and computes a tick within 100 of the emitted one, this
\* call applies nothing: the renderer cursor and lastTick stay as they were.
C23_JitterDamping ==
    [][(/\ AudioprocessStep
        /\ JustEmitted
        /\ last'.bar = last.bar
        /\ last'.computed
        /\ Abs(last'.tick - last.tick) <= JitterTicks) =>
          /\ ~last'.applied
          /\ tickPosition' = tickPosition
          /\ lastTick' = lastTick]_vars

(***************************************************************************)
(* Vocabulary of the save claims.                                          *)
(***************************************************************************)
\* C24: at most one save of the editor's project is in flight in every
\* reachable state.
C24_OneSaveInFlight == Len(saves) <= 1

\* C28: the store holds at most one record of the editing session in every
\* reachable state (a new session starts with an empty store, an opened one
\* with the record it was opened from).
C28_OneRecordPerSession == Cardinality(library) <= 1

(***************************************************************************)
(* Vocabulary of the load claims.                                          *)
(***************************************************************************)
\* every callback of every load that was requested has run
LoadsSettled == loads = {}

\* C25: once every callback has run, the score file's data, the score, and
\* the tick cache belong to the score file that was requested last (whose
\* name the session holds), and the audio file's data and the audio belong
\* to the audio file that was requested last, when that file can be decoded.
C25_LastRequestedLoadWins ==
    LoadsSettled =>
        /\ gpFileName # 0 =>
              /\ gpFileData = gpFileName
              /\ totalBars = gpFileName
              /\ Len(tickCache) = gpFileName
        /\ audioFileName \in AudioDurations =>
              /\ audioFileData = audioFileName
              /\ duration = audioFileName

\* C26: once every callback has run, the session's audio file, audio file
\* name and stored audio data are not those of a file whose load failed.
C26_FailedAudioLoadKeepsState ==
    LoadsSettled =>
        /\ audioFile # Undecodable
        /\ audioFileName # Undecodable
        /\ audioFileData # Undecodable

\* this step reads the downloaded file into the player
PlayerImportStep == last'.op = "loadSyncFile" /\ PlayerLoadSyncFile

\* this step reads the downloaded file into the editor
EditorImportStep == last'.op = "import" /\ EditorLoadSyncFile

LiveSources == SelectSeq(sources, LAMBDA x : ~AtEnd(x))

\* C29: in the player at most one started, un-stopped buffer source exists,
\* and it is the one audioSource refers to.
C29_OneLiveSource ==
    page = "player" =>
        /\ Len(LiveSources) <= 1
        /\ \A i \in 1..Len(LiveSources) : audioSource /\ LiveSources[i].cur

\* this step is a frame callback of the page's update loop
UpdateStep == last'.op = "update" /\ (Frame \/ StandaloneFrame)

\* C30: at any time at most one frame callback is scheduled, and a frame
\* callback that runs while the page is not playing changes neither the
\* position nor the cursor.
C30_OneUpdateChain ==
    /\ [](frames <= 1)
    /\ [][(UpdateStep /\ ~isPlaying) =>
             /\ currentTime' = currentTime
             /\ currentBar' = currentBar
             /\ tickPosition' = tickPosition]_vars

\* C31: in every reachable state of the editor, currentBarToMark is the
\* number of markers + 1.
C31_NextBarIsCountPlusOne ==
    page = "editor" => currentBarToMark = Len(beatMarkers) + 1

\* a tap has marked the only bar of a one-bar score
C31_Witness ==
    /\ last.op = "tap"
    /\ last.changed
    /\ Len(beatMarkers) = 1
    /\ totalBars = 1
    /\ currentBarToMark = 2

\* C32: once a score is loaded, the editor never holds more markers than the
\* score has bars.
C32_CountWithinTotalBars ==
    (page = "editor" /\ score) => Len(beatMarkers) <= totalBars

\* C33: in the player the stored position and the reported position are
\* within [0, duration] in every reachable state.
C33_PositionWithinAudio ==
    page = "player" =>
        /\ RLe(RInt(0), pausedAt) /\ RLe(pausedAt, RInt(duration))
        /\ RLe(RInt(0), currentTime) /\ RLe(currentTime, RInt(duration))

\* C34: a tempo change made while playing leaves the position the controller
\* computes from the audio clock as it was, and while the player plays that
\* position is the buffer position of the source audioSource refers to.
C34_TempoKeepsPosition ==
    /\ [][\A v \in TempoValues :
            (SetTempoStep(v) /\ isPlaying) =>
                RMul(RSub(RInt(ctxTime'), startedAt'), playbackRate') = ClockPosition]_vars
    /\ [](page = "player" /\ isPlaying =>
            \A i \in 1..Len(sources) :
                sources[i].cur => sources[i].pos = ClockPosition)

\* updateCursor with the lead offset taken out: the scan is made at time t
UpdateCursorNoLead(ms, t, dur, btm) ==
    UpdateCursorCall(ms, RSub(t, RInt(NotationOffset)), dur, btm)

\* C35: for a marker list with non-decreasing times, the page's tick map and
\* every time t, the player's resolver without lead offset and the editor's
\* resolver yield the same bar (0 for none) and the same progress.
C35_ResolversAgree ==
    NonDecreasing(PageMarkers) =>
        \A t \in ResolveTimes :
            LET p == UpdateCursorNoLead(PageMarkers, RInt(t), duration, barTickMap)
                e == HighlightCall(PageMarkers, RInt(t), barTickMap, lastSyncedBar,
                                   lastTick)
            IN  /\ p.bar = e.bar
                /\ p.progress = e.progress

\* this step is the scoreLoaded event of a score of n bars
ScoreLoadedStep(n) == last'.op = "scoreLoaded" /\ OnScoreLoaded(n)

\* C37: when a score is loaded while another score is loaded and the marker
\* list ends with a marker that was just tapped on that other score (so the
\* list was not supplied for the new score by a project open or an import),
\* the load leaves an empty list and currentBarToMark = 1.
C37_OtherScoreResetsMarkers ==
    [][\A n \in 1..MaxBars :
          (/\ ScoreLoadedStep(n)
           /\ score
           /\ n # totalBars
           /\ last.op = "tap"
           /\ last.changed) =>
              /\ beatMarkers' = <<>>
              /\ currentBarToMark' = 1]_vars

\* the marker list of the record the store holds for the editor's project
StoredMarkers == {r.markers : r \in {x \in library : x.id = projectId}}

\* the store has taken as many records as are followed
StoreExhausted == Now > MaxStores

\* C36: a confirmed clear of the markers of a project that has been saved
\* leaves an auto-save scheduled, and from the state after it the store
\* comes to hold the empty list for the project (unless markers are tapped
\* again).
C36_ClearIsSaved ==
    /\ [][(ClearStep(TRUE) /\ Len(beatMarkers) # 0 /\ projectId # 0) => timer']_vars
    /\ (last.op = "clear" /\ last.changed /\ projectId # 0)
          ~> (StoredMarkers = {<<>>} \/ beatMarkers # <<>> \/ StoreExhausted)

\* C38: with the data of score and audio held and a store that never fails,
\* once a tap or an undo has left a non-empty list (scheduleAutoSave has
\* set a timeout), either the marker list keeps changing, or again and
\* again the store holds exactly the list in memory for the project (or
\* that list is empty): the list left by the last change gets saved.
C38_FinalListIsSaved ==
    \/ []<><<beatMarkers' # beatMarkers>>_vars
    \/ []<>(\/ StoredMarkers = {beatMarkers}
            \/ beatMarkers = <<>>
            \/ ~autoSaveTimeout
            \/ ~HasFileData
            \/ StoreExhausted)

\* this step is the failure of the store for a save in flight
SaveFailedStep == last'.op = "saveFailed" /\ SaveFailed

\* C39: a storage failure during a save leaves projectId, the marker list
\* and currentBarToMark as they were, and in every reachable state in which
\* no save is in flight isSaving is false (after a save that succeeded,
\* failed or skipped for missing file data), so that the next autoSave is
\* not turned away.
C39_FailedSaveKeepsState ==
    /\ [][SaveFailedStep => UNCHANGED <<projectId, beatMarkers, currentBarToMark>>]_vars
    /\ [](saves = <<>> => ~isSaving)

\* the first save of a new session has failed
C39_Witness ==
    /\ last.op = "saveFailed"
    /\ saves = <<>>
    /\ ~isSaving
    /\ projectId = 0
    /\ library = {}
    /\ Len(beatMarkers) = 1

\* this step puts the record of a save in flight into the store
SavePutStep == last'.op = "savePut" /\ SavePut

\* C40: a put for a project id the store already holds a record of leaves
\* that record's createdAt as it was and sets an updatedAt that is not
\* earlier than the one it had.
C40_CreatedAtIsKept ==
    [][SavePutStep =>
          \A old \in library, new \in library' :
              (old.id = new.id) =>
                  /\ new.createdAt = old.createdAt
                  /\ new.updatedAt >= old.updatedAt]_vars

====
